---- MODULE Spec2Model ----
(***************************************************************************)
(* ultra-nrepl: the nREPL exchange loop (src/nrepl.rs), the operations     *)
(* built on it (src/nrepl/ops.rs) and the session resolution               *)
(* (src/nrepl/session.rs, src/config.rs), as one state machine (Spec).     *)
(*                                                                         *)
(* One client process at a time talks to the nREPL server of one address   *)
(* over one connection.  The server is the environment: what it sends is   *)
(* an input of the read step.                                              *)
(*                                                                         *)
(* Further specifications share the variables: SpecPipe, the exchange of   *)
(* `unrepl op` with a server that sends ahead of the reads; SpecConc, two   *)
(* processes resolving a session concurrently on one sessions file;        *)
(* SpecEnc, the encoder of an Op (src/nrepl.rs); SpecDec, the bencode      *)
(* Decoder (src/bencode.rs) on a stream that holds given bytes;            *)
(* SpecStream, the Decoder on a stream that delivers them in chunks;       *)
(* SpecStore, the store of sessions of src/config.rs.                      *)
(***************************************************************************)
EXTENDS Integers, Sequences, FiniteSets, TLC

VARIABLES
    live,          \* server: address -> set of session ids the server knows
    nextId,        \* server: number of the next session id it issues
    sessionsFile,  \* the sessions file: set of <<address, session id>> entries
    pc,            \* the client process: where it is
    connAddr,      \* NreplStream.socket_addr of the open connection
    unread,        \* the messages the server sent on it that no read has taken
    xpc,           \* NreplStream::op: "none", "reading", "ok", "err", "panic"
    xerr,          \* the nrepl::Error op returned, "" when none
    delivered,     \* the messages the server delivered in this exchange
    eof,           \* the peer closed the connection during this exchange
    resps,         \* `resps` of NreplStream::op
    sentOps,       \* the names of the operations written in this process run
    written,       \* what of the last of them the transport took: "all", "prefix",
                   \* "none"; "" before the first
    store0,        \* the sessions file as it was when resolution started
    mbSessionId,   \* `mb_session_id` of get_existing_session_id
    lsResult,      \* the sessions LsSessions::send returned, <<>> before
    newSessionId,  \* `new_session_id` of get_existing_session_id
    result,        \* what get_existing_session_id returned
    timedOut,      \* the timeout that expired in this run: "connect", "read", "" if none
    session,       \* Some(the operations of the Session Info::send was called on), or None
    died,          \* the error the command ended the process with, "" if none
    procs,         \* concurrent resolutions: process -> its local state
    lock,          \* the process holding the lock of the sessions file, "" if none
    encOp,         \* encoder: the Op to encode, [name, args]
    encArgs2,      \* encoder: the arguments of encOp inserted in another order
    encOut,        \* encoder: to_bencode of encOp, None before
    encOut2,       \* encoder: to_bencode of the Op with encArgs2, None before
    input,         \* decoder: the bytes of the stream the Decoder was built on
    tree,          \* decoder: Some(the Object the input was made from: of its
                   \* encoding, or, a List, of its elements' encodings), or None
    decoder,       \* decoder: Decoder { rdr, tokens }
    decoded,       \* decoder: what the calls of read_object returned, in order
    db,            \* store: the rows of the table sessions, <<addr, session_id, ops_list>>
    stPc,          \* store: where the process using it is, "off" when none
    stSession,     \* store: the Session given to save_session
    stLoaded       \* store: what load_session returned, None before

\* The variables of the one-process state machine that belong to the process.
procVars == <<pc, connAddr, unread, xpc, xerr, delivered, eof, resps, sentOps, written,
              store0, mbSessionId, lsResult, newSessionId, result, timedOut,
              session, died>>

\* Those of them that the steps of `unrepl op` and of
\* get_existing_session_id leave alone.
docVars == <<timedOut, session, died>>

\* The variables of the concurrent resolutions.
concVars == <<procs, lock>>

\* The variables of the encoder.
encVars == <<encOp, encArgs2, encOut, encOut2>>

\* The variables of the decoder.
decVars == <<input, tree, decoder, decoded>>

\* The variables of the store of config.rs.
storeVars == <<db, stPc, stSession, stLoaded>>

\* The variables the one-process state machine leaves alone.
auxVars == <<concVars, encVars, decVars, storeVars>>

vars == <<live, nextId, sessionsFile, procVars, auxVars>>

\* Bounds of the model.
MaxMsgs == 3   \* messages the server delivers within one exchange of `unrepl op`
MaxSessionMsgs == 2  \* messages it delivers within one ls-sessions or clone exchange
MaxIds == 2    \* session identifiers the server issues

Addrs == {"a1", "a2"}

\* The processes that resolve a session concurrently, and what a process
\* holds when it enters get_existing_session_id: pc is where it is, addr the
\* address of its connection, mb is `mb_session_id`, new `new_session_id`,
\* parsed the map save_session_id parsed, sessions that map after the
\* insert, result what get_existing_session_id returned.
Procs == {"p1", "p2"}

\* The user's operations of `unrepl op` (cmd/op.rs), by name.
UserOps == {"eval"}

Id(n) == "s" \o ToString(n)

None == <<>>
Some(x) == <<x>>

ProcStart ==
    [pc |-> "start", addr |-> "a1", mb |-> None, new |-> None, parsed |-> {},
     sessions |-> {}, result |-> [ok |-> FALSE, val |-> <<>>, err |-> ""]]

(***************************************************************************)
(* Wire values as serde_bencode::value::Value decodes them.  A byte string *)
(* is the one-element sequence of its text, a list of byte strings the     *)
(* sequence of their texts.                                                *)
(***************************************************************************)
Bytes(s) == [t |-> "bytes", v |-> <<s>>]
List(ss) == [t |-> "list", v |-> ss]
Number(s) == [t |-> "int", v |-> <<s>>]

\* A key that is no valid UTF-8.
BadUtf8Key == "\\xff"

\* One message of the server: a map, as the sequence of its (key, value)
\* pairs in wire order, or a value that is no map.
Msg(pairs) == [dict |-> TRUE, pairs |-> pairs]
NonDictMsg == [dict |-> FALSE, pairs |-> <<>>]

RECURSIVE SetToSeq(_)
SetToSeq(S) ==
    IF S = {} THEN <<>>
    ELSE LET x == CHOOSE y \in S : TRUE IN <<x>> \o SetToSeq(S \ {x})

Range(s) == {s[i] : i \in 1..Len(s)}

StatusVals ==
    { List(<<"done">>), List(<<"eval-error">>), List(<<"done", "no-info">>),
      List(<<"error", "done">>), Bytes("") }

\* Messages any exchange can see.
GenericMsgs ==
    { Msg(<<<<"x", Bytes("v")>>>>),
      Msg(<<<<BadUtf8Key, Bytes("v")>>>>),
      NonDictMsg,
      Msg(<<<<"x", Bytes("v")>>, <<"x", Bytes("w")>>>>),
      Msg(<<<<"x", Bytes("v")>>, <<"status", List(<<"done">>)>>>>) }
    \cup { Msg(<<<<"status", s>>>>) : s \in StatusVals }

\* The identifier a message issues, if it is a clone answer.
Issues(m) ==
    {m.pairs[i][2].v[1] : i \in {j \in 1..Len(m.pairs) : m.pairs[j][1] = "new-session"}}

\* The identifiers the server issued in the exchange in flight.
IssuedNow == UNION {Issues(delivered[i]) : i \in 1..Len(delivered)}

\* What the server of address a answers to operation o: the session list it
\* holds for ls-sessions, one fresh identifier for clone.
OpPayload(o, a) ==
    CASE o = "ls-sessions" -> {<<"sessions", List(SetToSeq(live[a]))>>,
                               <<"sessions", Number("7")>>}
      [] o = "clone" -> IF nextId <= MaxIds /\ IssuedNow = {}
                        THEN {<<"new-session", Bytes(Id(nextId))>>,
                              <<"new-session", List(<<Id(nextId)>>)>>}
                        ELSE {}
      [] OTHER -> {<<"value", Bytes("v")>>}

OpMsgs(o, a) ==
    { Msg(<<p>>) : p \in OpPayload(o, a) }
    \cup { Msg(<<p, <<"status", List(<<"done">>)>>>>) : p \in OpPayload(o, a) }

\* Terminal answers to the info operation: a symbol with its line, one
\* without, and a Java class (its file is a list).
InfoMsgs ==
    { Msg(<<<<"file", Bytes("f")>>, <<"resource", Bytes("r")>>,
            <<"line", Number("7")>>, <<"status", List(<<"done">>)>>>>),
      Msg(<<<<"file", Bytes("f")>>, <<"resource", Bytes("r")>>,
            <<"status", List(<<"done">>)>>>>),
      Msg(<<<<"file", List(<<"f">>)>>, <<"status", List(<<"done">>)>>>>) }

ServerMsgs(o, a) ==
    GenericMsgs \cup OpMsgs(o, a) \cup (IF o = "info" THEN InfoMsgs ELSE {})

\* The operation in flight: the last one written.
CurOp == IF sentOps = <<>> THEN "" ELSE sentOps[Len(sentOps)]


(***************************************************************************)
(* src/nrepl.rs                                                            *)
(***************************************************************************)
Keys(pairs) == {pairs[i][1] : i \in 1..Len(pairs)}

\* HashMap::from_iter over the pairs: a later pair replaces an earlier one
\* with the same key.
LastIndex(pairs, k) ==
    CHOOSE i \in 1..Len(pairs) :
        /\ pairs[i][1] = k
        /\ \A j \in (i+1)..Len(pairs) : pairs[j][1] # k

\* TryFrom<BencodeValue> for Resp, on a map whose keys are UTF-8.
RespOf(m) == [k \in Keys(m.pairs) |-> m.pairs[LastIndex(m.pairs, k)][2]]

\* What read_resp does with a message: "panic" (an unwrap fails), "err"
\* (Err(BencodeFormatError(ExpectedMap))) or "ok".
ReadOutcome(m) ==
    IF ~m.dict THEN "err"
    ELSE IF BadUtf8Key \in Keys(m.pairs) THEN "panic"
    ELSE "ok"

\* Variants of is_final_resp: final only on the status ["done"]; final always.
is_final_resp_OnlyDone(resp) ==
    "status" \in DOMAIN resp /\ resp["status"] = List(<<"done">>)
is_final_resp_Always(resp) == TRUE

is_final_resp(resp) == "status" \in DOMAIN resp

\* Variant of PushResp: the Response is put in front.
PushResp_Front(rs, resp) == <<resp>> \o rs

\* resps.push(resp) in the loop of NreplStream::op.
PushResp(rs, resp) == Append(rs, resp)


\* Variant of Classify: Done whenever the tokens contain "done".
Classify_ContainsDone(v) ==
    IF v.t = "list" /\ "done" \in Range(v.v) THEN "Done"
    ELSE IF v = List(<<"eval-error">>) THEN "EvalError"
    ELSE "Unclassified"

\* nrepl::Status is built from the status of the last Response: the
\* classification of the terminal status tokens.
Classify(v) ==
    IF v = List(<<"done">>) THEN "Done"
    ELSE IF v = List(<<"eval-error">>) THEN "EvalError"
    ELSE IF v = List(<<"done", "no-info">>) THEN "NoInfo"
    ELSE "Unclassified"

\* The classified outcome of a completed exchange: the class, the raw status
\* tokens and the Responses.
StatusOf(rs) ==
    [class |-> Classify(rs[Len(rs)]["status"]),
     tokens |-> rs[Len(rs)]["status"].v,
     resps |-> rs]

(***************************************************************************)
(* src/nrepl/ops.rs                                                        *)
(***************************************************************************)
Ok(v) == [ok |-> TRUE, val |-> v, err |-> ""]
Err(e) == [ok |-> FALSE, val |-> <<>>, err |-> e]

\* bencode::try_into_string and bencode::try_into_str_vec: the typed
\* conversions of a field value.
try_into_string(v) == IF v.t = "bytes" THEN Ok(v.v) ELSE Err("ExpectedString")
try_into_str_vec(v) == IF v.t = "list" THEN Ok(v.v) ELSE Err("ExpectedStrVec")

\* The first Response of rs that holds key k, 0 when there is none.
FirstWith(rs, k) ==
    IF \E i \in 1..Len(rs) : k \in DOMAIN rs[i]
    THEN CHOOSE i \in 1..Len(rs) :
             /\ k \in DOMAIN rs[i]
             /\ \A j \in 1..(i-1) : k \notin DOMAIN rs[j]
    ELSE 0

\* <CloneSession as NreplOp>::send, from what NreplStream::op returned:
\* x is "ok" or "err", e the error, rs the Responses.
CloneSessionSend(x, e, rs) ==
    IF x = "err" THEN Err(e)
    ELSE IF StatusOf(rs).class # "Done" THEN Err("BadStatus")
    ELSE LET i == FirstWith(rs, "new-session") IN
         IF i = 0 THEN Err("NoSessionIdInResponse")
         ELSE try_into_string(rs[i]["new-session"])

\* Variant of LsSessionsSend: an exchange that failed counts as an empty
\* list of sessions.
LsSessionsSend_IgnoreErr(x, e, rs) ==
    IF x = "err" THEN Ok(<<>>)
    ELSE IF StatusOf(rs).class # "Done" THEN Err("BadStatus")
    ELSE LET i == FirstWith(rs, "sessions") IN
         IF i = 0 THEN Err("NoSessionsInResponse")
         ELSE try_into_str_vec(rs[i]["sessions"])

\* <LsSessions as NreplOp>::send.
LsSessionsSend(x, e, rs) ==
    IF x = "err" THEN Err(e)
    ELSE IF StatusOf(rs).class # "Done" THEN Err("BadStatus")
    ELSE LET i == FirstWith(rs, "sessions") IN
         IF i = 0 THEN Err("NoSessionsInResponse")
         ELSE try_into_str_vec(rs[i]["sessions"])

\* bencode::try_into_int: the typed conversion of a field value.
try_into_int(v) == IF v.t = "int" THEN Ok(v.v) ELSE Err("ExpectedInt")

\* The Responses of rs that hold key k.
AllWith(rs, k) == {i \in 1..Len(rs) : k \in DOMAIN rs[i]}

\* <GetNsName as NreplOp>::send: Ok(Some(value)) with the value of the last
\* Response that holds one, Ok(None) when none does.
GetNsNameSend(x, e, rs) ==
    IF x = "err" THEN Err(e)
    ELSE IF StatusOf(rs).class # "Done" THEN Err("BadStatus")
    ELSE IF \E i \in AllWith(rs, "value") : ~try_into_string(rs[i]["value"]).ok
    THEN Err("ExpectedString")
    ELSE IF AllWith(rs, "value") = {} THEN Ok(None)
    ELSE try_into_string(
             rs[CHOOSE i \in AllWith(rs, "value") :
                    \A j \in AllWith(rs, "value") : j <= i]["value"])

\* The operation sets of the Sessions Info::send is called on.
SessionOps == {{"eval"}, {"eval", "info"}}

\* Session::is_op_available: the operation is among those of the Session.
is_op_available(ops, o) == o \in ops

\* Variant of InfoUnavailable: the operations of the Session are not looked at.
InfoUnavailable_Never(ops) == FALSE

\* The test at the head of Info::send.
InfoUnavailable(ops) == ~is_op_available(ops, "info")

\* The fields of an info Response that are read as a string when present.
InfoStrFields == {"doc", "name", "arglists-str", "ns", "macro"}

\* Info::send on the last Response of a Done exchange: the typed reads of
\* the fields in the order of the code; Err("panic") is the panic of
\* line.unwrap() when there is no line.
InfoFrom(resp) ==
    IF \E k \in {"line", "column"} \cap DOMAIN resp : ~try_into_int(resp[k]).ok
    THEN Err("ExpectedInt")
    ELSE IF "file" \in DOMAIN resp /\ resp["file"].t = "list" THEN Ok(None)
    ELSE IF "file" \notin DOMAIN resp THEN Err("FieldNotFound(file)")
    ELSE IF ~try_into_string(resp["file"]).ok THEN Err("ExpectedString")
    ELSE IF "resource" \notin DOMAIN resp THEN Err("FieldNotFound(resource)")
    ELSE IF ~try_into_string(resp["resource"]).ok THEN Err("ExpectedString")
    ELSE IF \E k \in InfoStrFields \cap DOMAIN resp : ~try_into_string(resp[k]).ok
    THEN Err("ExpectedString")
    ELSE IF "spec" \in DOMAIN resp /\ ~try_into_str_vec(resp["spec"]).ok
    THEN Err("ExpectedStrVec")
    ELSE IF "line" \notin DOMAIN resp THEN Err("panic")
    ELSE Ok(Some("info"))

\* <Info as NreplOp>::send, from what NreplStream::op returned.
InfoSend(x, e, rs) ==
    IF x = "err" THEN Err(e)
    ELSE IF StatusOf(rs).class = "NoInfo" THEN Ok(None)
    ELSE IF StatusOf(rs).class # "Done" THEN Err("BadStatus")
    ELSE InfoFrom(rs[Len(rs)])

(***************************************************************************)
(* src/nrepl/session.rs                                                    *)
(***************************************************************************)
\* config::parse_sessions: the sessions file as a map from address to
\* session id, here the set of its entries.
parse_sessions(file) == file

\* Variants of HashMapInsert: an entry already there is kept (as with
\* entry().or_insert()); the new entry is added beside the old one.
HashMapInsert_KeepOld(sessions, a, sid) ==
    IF \E e \in sessions : e[1] = a THEN sessions ELSE sessions \cup {<<a, sid>>}
HashMapInsert_Add(sessions, a, sid) == sessions \cup {<<a, sid>>}

\* HashMap::insert of save_session_id: the entry of the address is replaced.
HashMapInsert(sessions, a, sid) ==
    {e \in sessions : e[1] # a} \cup {<<a, sid>>}

\* sessions.remove(addr) of load_session_id: the session id stored for the
\* address, None when there is none.
HashMapRemove(sessions, a) ==
    IF \E e \in sessions : e[1] = a
    THEN Some((CHOOSE e \in sessions : e[1] = a)[2])
    ELSE None

\* Variants of session_id_exists: the answer is always yes; always no.
session_id_exists_Always(sessions, session_id) == TRUE
session_id_exists_Never(sessions, session_id) == FALSE

session_id_exists(sessions, session_id) ==
    \E i \in 1..Len(sessions) : sessions[i] = session_id

(***************************************************************************)
(* <Op as ToBencode>::encode (src/nrepl.rs).  A string is the sequence of  *)
(* its bytes, a byte a one-character string.                               *)
(***************************************************************************)
\* The bytes the model uses, in ascending byte order.
Ascii ==
    <<"-", "0", "1", "2", "3", "4", "5", "6", "7", "8", "9", ":",
      "a", "b", "c", "d", "e", "f", "g", "h", "i", "j", "k", "l", "m",
      "n", "o", "p", "q", "r", "s", "t", "u", "v", "w", "x", "y", "z">>

\* The position of byte c in the byte order.
Ord(c) == CHOOSE i \in 1..Len(Ascii) : Ascii[i] = c

DecimalDigits == <<"0", "1", "2", "3", "4", "5", "6", "7", "8", "9">>

\* The decimal text of the natural number n.
RECURSIVE Decimal(_)
Decimal(n) ==
    IF n < 10 THEN <<DecimalDigits[n + 1]>>
    ELSE Decimal(n \div 10) \o <<DecimalDigits[(n % 10) + 1]>>

\* Ord of str and of [u8]: a is before b in the lexicographic byte order.
BytesLess(a, b) ==
    \E k \in 0..Len(a) :
        /\ k <= Len(b)
        /\ \A j \in 1..k : a[j] = b[j]
        /\ \/ k = Len(a) /\ k < Len(b)
           \/ k < Len(a) /\ k < Len(b) /\ Ord(a[k + 1]) < Ord(b[k + 1])

\* Ord of (&str, &str): by the first component, then by the second.
PairLess(p, q) ==
    \/ BytesLess(p[1], q[1])
    \/ p[1] = q[1] /\ BytesLess(p[2], q[2])

\* pair p put at its place in the sorted sequence ps.
RECURSIVE InsertSorted(_, _)
InsertSorted(p, ps) ==
    IF ps = <<>> THEN <<p>>
    ELSE IF PairLess(p, ps[1]) THEN <<p>> \o ps
    ELSE <<ps[1]>> \o InsertSorted(p, Tail(ps))

\* Variant of SortPairs: the pairs stay in insertion order.
SortPairs_None(pairs) == pairs

\* pairs.sort() of encode.
RECURSIVE SortPairs(_)
SortPairs(pairs) ==
    IF pairs = <<>> THEN <<>>
    ELSE InsertSorted(pairs[Len(pairs)], SortPairs(SubSeq(pairs, 1, Len(pairs) - 1)))

\* A byte string on the wire: its length in decimal, ':', its bytes.
EmitStr(bytes) == Decimal(Len(bytes)) \o <<":">> \o bytes

\* e.emit_pair for each pair in turn.
RECURSIVE EmitPairs(_)
EmitPairs(pairs) ==
    IF pairs = <<>> THEN <<>>
    ELSE EmitStr(pairs[1][1]) \o EmitStr(pairs[1][2]) \o EmitPairs(Tail(pairs))

\* The key of the operation name.
OpKey == <<"o", "p">>

\* Variant of to_bencode: the "op" pair first, the sorted arguments after it.
to_bencode_OpFirst(o) ==
    <<"d">> \o EmitPairs(<<<<OpKey, o.name>>>> \o SortPairs(o.args)) \o <<"e">>

\* encode of Op inside emit_dict: the "op" pair and the arguments, sorted,
\* emitted between 'd' and 'e'.
to_bencode(o) ==
    <<"d">> \o EmitPairs(SortPairs(<<<<OpKey, o.name>>>> \o o.args)) \o <<"e">>

\* Bound of the encoder's inputs.
MaxArgs == 2   \* arguments of an Op

OpNames == { <<"c", "l", "o", "n", "e">>, <<"e", "v", "a", "l">> }

ArgNames == { <<"n", "s">>, <<"c", "o", "d", "e">>, <<"o", "q">>,
              <<"s", "e", "s", "s", "i", "o", "n">> }

ArgVals == { <<>>, <<"u", "s", "e", "r">>,
             <<"a", "b", "c", "d", "e", "f", "g", "h", "i", "j", "k">> }

\* The argument lists of at most MaxArgs arguments with unique names, none
\* of them named "op".
ArgLists ==
    UNION { { as \in [1..n -> ArgNames \X ArgVals] :
                \A i, j \in 1..n : as[i][1] = as[j][1] => i = j } :
            n \in 0..MaxArgs }

\* The orderings of the argument list as.
Orderings(as) ==
    { bs \in [1..Len(as) -> Range(as)] : Range(bs) = Range(as) }

\* Op::new.
Op(name, args) == [name |-> name, args |-> args]

\* No Op is being encoded.
EncIdle ==
    /\ encOp = Op(<<>>, <<>>)
    /\ encArgs2 = <<>>
    /\ encOut = None
    /\ encOut2 = None

(***************************************************************************)
(* The decoder (src/bencode.rs).  The stream is the sequence of the bytes  *)
(* not yet read; a decoder is its stream and its token stack.              *)
(***************************************************************************)
\* Object: t is the variant, n the i64 of a Number, b the bytes of a
\* BBytes, v the elements of a List; a Dict holds its pairs as the keys k
\* and the values v, in order.
ObjNumber(n) == [t |-> "Number", n |-> n, b |-> <<>>, k |-> <<>>, v |-> <<>>]
ObjBBytes(b) == [t |-> "BBytes", n |-> 0, b |-> b, k |-> <<>>, v |-> <<>>]
ObjList(v) == [t |-> "List", n |-> 0, b |-> <<>>, k |-> <<>>, v |-> v]
ObjDict(k, v) == [t |-> "Dict", n |-> 0, b |-> <<>>, k |-> k, v |-> v]

\* The place of the Object in a result that holds none.
NoObject == [t |-> "none", n |-> 0, b |-> <<>>, k |-> <<>>, v |-> <<>>]

\* Token: List, Dict, Int, End, or Length with its u32.
Tok(t, n) == [t |-> t, n |-> n]

\* Decoder { rdr, tokens }.
Decoder(rdr, tokens) == [rdr |-> rdr, tokens |-> tokens]

\* Result<Option<Object>, Error> of read_object together with the decoder it
\* leaves: Ok(Some(obj)), Ok(None), Err(err).
ResSome(o, d) == [kind |-> "some", obj |-> o, err |-> "", d |-> d]
ResNone(d) == [kind |-> "none", obj |-> NoObject, err |-> "", d |-> d]
ResErr(e, d) == [kind |-> "err", obj |-> NoObject, err |-> e, d |-> d]

\* Result of a read on the stream: err is "" on success, val the value read,
\* rdr the stream left.
ReadOk(val, rdr) == [err |-> "", val |-> val, rdr |-> rdr]
ReadErr(e, rdr) == [err |-> e, val |-> <<>>, rdr |-> rdr]

\* A byte that is part of no UTF-8 text.
ByteFF == "\\xff"

\* String::from_utf8 succeeds.
ValidUtf8(bytes) == ByteFF \notin Range(bytes)

IsDigit(c) == c \in Range(DecimalDigits)

DigitVal(c) == (CHOOSE i \in 1..10 : DecimalDigits[i] = c) - 1

\* The number the decimal digits ds denote.
RECURSIVE DigitsValue(_)
DigitsValue(ds) ==
    IF ds = <<>> THEN 0
    ELSE 10 * DigitsValue(SubSeq(ds, 1, Len(ds) - 1)) + DigitVal(ds[Len(ds)])

AllDigits(ds) == ds # <<>> /\ \A i \in 1..Len(ds) : IsDigit(ds[i])

\* The number the digits ds denote is within u32 and i64: every number of
\* at most nine digits is, and the inputs hold no longer one.
FitsInt(ds) == Len(ds) <= 9

\* str::parse::<u32>: an optional '+', then digits, the value within u32.
\* None when the parse fails.
parse_u32(str) ==
    LET ds == IF str # <<>> /\ str[1] = "+" THEN Tail(str) ELSE str IN
    IF AllDigits(ds) /\ FitsInt(ds) THEN Some(DigitsValue(ds)) ELSE None

\* Variant of parse_i64: a sign is not accepted.
parse_i64_NoSign(str) ==
    IF AllDigits(str) /\ FitsInt(str) THEN Some(DigitsValue(str)) ELSE None

\* str::parse::<i64>: an optional '+' or '-', then digits, the value within
\* i64.  None when the parse fails.
parse_i64(str) ==
    LET neg == str # <<>> /\ str[1] = "-"
        ds == IF str # <<>> /\ str[1] \in {"+", "-"} THEN Tail(str) ELSE str
    IN  IF ~AllDigits(ds) \/ ~FitsInt(ds) THEN None
        ELSE IF neg THEN Some(0 - DigitsValue(ds))
        ELSE Some(DigitsValue(ds))

\* The last element of a nonempty sequence, and the elements before it.
Last(q) == q[Len(q)]
Front(q) == SubSeq(q, 1, Len(q) - 1)

\* The stream rdr is the sequence of the bytes it still holds, with ChunkEnd
\* between the last byte one read of the underlying source delivers and the
\* first byte of the next read: no ChunkEnd when one read delivers all.
ChunkEnd == "|"

\* The place of the first x in q, which holds one.
FirstAt(q, x) == CHOOSE j \in 1..Len(q) : q[j] = x /\ \A h \in 1..(j - 1) : q[h] # x

\* The number of bytes the next read delivers.
ChunkLen(rdr) ==
    IF ChunkEnd \in Range(rdr) THEN FirstAt(rdr, ChunkEnd) - 1 ELSE Len(rdr)

\* BufRead::fill_buf: the bytes the next read delivers, none at the end of
\* the stream.
FillBuf(rdr) == SubSeq(rdr, 1, ChunkLen(rdr))

\* BufRead::consume(n), n at most the bytes fill_buf returned: when they are
\* used up, the next fill_buf reads again.
Consume(rdr, n) ==
    IF n < Len(rdr) /\ rdr[n + 1] = ChunkEnd
    THEN SubSeq(rdr, n + 2, Len(rdr))
    ELSE SubSeq(rdr, n + 1, Len(rdr))

Min2(a, b) == IF a < b THEN a ELSE b

RECURSIVE ReadUntilLoop(_, _, _), ReadUntilFrom(_, _, _, _), ReadExactLoop(_, _, _)

\* Variant of ReadUntilLoop: one fill_buf only, what it delivers is all that
\* is read.
ReadUntilLoop_OneRead(rdr, delim, buf) ==
    IF delim \in Range(FillBuf(rdr))
    THEN ReadOk(buf \o SubSeq(rdr, 1, FirstAt(rdr, delim)),
                Consume(rdr, FirstAt(rdr, delim)))
    ELSE ReadOk(buf \o FillBuf(rdr), Consume(rdr, ChunkLen(rdr)))

\* The loop of BufRead::read_until: fill_buf, then the turn on what it
\* returned.
ReadUntilLoop(rdr, delim, buf) == ReadUntilFrom(FillBuf(rdr), rdr, delim, buf)

\* One turn of the loop of BufRead::read_until on the bytes available: up to
\* the delimiter if they hold it, else all of them and the next turn; the
\* loop ends when nothing is available.
ReadUntilFrom(available, rdr, delim, buf) ==
    IF available = <<>> THEN ReadOk(buf, rdr)
    ELSE IF delim \in Range(available)
    THEN ReadOk(buf \o SubSeq(available, 1, FirstAt(available, delim)),
                Consume(rdr, FirstAt(available, delim)))
    ELSE ReadUntilLoop(Consume(rdr, Len(available)), delim, buf \o available)

\* BufRead::read_until(delim): the bytes up to and including the first
\* delim, or all the bytes left when there is none.
read_until(rdr, delim) == ReadUntilLoop(rdr, delim, <<>>)

\* The loop of Read::read_exact for len bytes more: each read delivers at
\* most what is asked for; a read of no byte is the end of the stream, the
\* io::Error UnexpectedEof.
ReadExactLoop(rdr, len, buf) ==
    IF len = 0 THEN ReadOk(buf, rdr)
    ELSE IF rdr = <<>> THEN ReadErr("UnexpectedEof", <<>>)
    ELSE ReadExactLoop(Consume(rdr, Min2(len, ChunkLen(rdr))),
                       len - Min2(len, ChunkLen(rdr)),
                       buf \o SubSeq(rdr, 1, Min2(len, ChunkLen(rdr))))

\* Read::read_exact into a buffer of len bytes.
read_exact(rdr, len) == ReadExactLoop(rdr, len, <<>>)

\* map_err(..)? on a parse: n is Some(number) or None, e the error.
Parsed(n, e, rdr) == IF n = None THEN ReadErr(e, rdr) ELSE ReadOk(n[1], rdr)

\* Decoder::read_length after its read_until: len_buf is the prefix and the
\* bytes read, rdr the stream left.
LengthFrom(len_buf, rdr) ==
    IF len_buf = <<>> THEN ReadErr("UnexpectedEOF", rdr)
    ELSE IF Last(len_buf) # ":" THEN ReadErr("MalformedInput", rdr)
    ELSE IF ~ValidUtf8(Front(len_buf)) THEN ReadErr("MalformedInput", rdr)
    ELSE Parsed(parse_u32(Front(len_buf)), "BadLengthStr", rdr)

\* read_length after read_until returned r: the bytes read are appended to
\* the prefix.
LengthAfter(prefix, r) == LengthFrom(prefix \o r.val, r.rdr)

\* Decoder::read_length: the length prefix that starts with the bytes prefix.
read_length(rdr, prefix) == LengthAfter(prefix, read_until(rdr, ":"))

\* read_str after its read_exact returned r.
StrFrom(r) == IF r.err # "" THEN ReadErr("IOError", <<>>) ELSE r

\* Decoder::read_str: read_exact of len bytes; at end-of-stream read_exact
\* returns an io::Error, which `?` turns into Error::IOError.
read_str(rdr, len) == StrFrom(read_exact(rdr, len))

\* Variant of IntFrom: the end of the stream ends the integer as 'e' does.
IntFrom_EofIsEnd(int_buf, rdr) ==
    IF int_buf # <<>> /\ Last(int_buf) = "e"
    THEN (IF ~ValidUtf8(Front(int_buf)) THEN ReadErr("MalformedInput", rdr)
          ELSE Parsed(parse_i64(Front(int_buf)), "MalformedInput", rdr))
    ELSE (IF ~ValidUtf8(int_buf) THEN ReadErr("MalformedInput", rdr)
          ELSE Parsed(parse_i64(int_buf), "MalformedInput", rdr))

\* Decoder::read_int after its read_until: int_buf is the bytes read.
IntFrom(int_buf, rdr) ==
    IF int_buf = <<>> \/ Last(int_buf) # "e" THEN ReadErr("UnexpectedEOF", rdr)
    ELSE IF ~ValidUtf8(Front(int_buf)) THEN ReadErr("MalformedInput", rdr)
    ELSE Parsed(parse_i64(Front(int_buf)), "MalformedInput", rdr)

\* read_int after read_until returned r.
IntAfter(r) == IntFrom(r.val, r.rdr)

\* Decoder::read_int: the bytes up to 'e' as an i64.
read_int(rdr) == IntAfter(read_until(rdr, "e"))

\* .map(|l| Token::Length(l))? on what read_length returned.
LengthToken(l) ==
    IF l.err # "" THEN ReadErr(l.err, l.rdr)
    ELSE ReadOk(Some(Tok("Length", l.val)), l.rdr)

\* Variant of TokenFrom: the error of an unexpected byte does not carry it.
TokenFrom_NoByte(r) ==
    IF r.err # "" THEN ReadOk(None, <<>>)
    ELSE CASE r.val[1] = "l" -> ReadOk(Some(Tok("List", 0)), r.rdr)
           [] r.val[1] = "i" -> ReadOk(Some(Tok("Int", 0)), r.rdr)
           [] r.val[1] = "d" -> ReadOk(Some(Tok("Dict", 0)), r.rdr)
           [] r.val[1] = "e" -> ReadOk(Some(Tok("End", 0)), r.rdr)
           [] IsDigit(r.val[1]) -> LengthToken(read_length(r.rdr, r.val))
           [] OTHER -> ReadErr("UnexpectedToken", r.rdr)

\* decode_token after its read_exact of one byte returned r: Ok(None) at
\* the end of the stream, else the token the byte starts.
TokenFrom(r) ==
    IF r.err # "" THEN ReadOk(None, <<>>)
    ELSE CASE r.val[1] = "l" -> ReadOk(Some(Tok("List", 0)), r.rdr)
           [] r.val[1] = "i" -> ReadOk(Some(Tok("Int", 0)), r.rdr)
           [] r.val[1] = "d" -> ReadOk(Some(Tok("Dict", 0)), r.rdr)
           [] r.val[1] = "e" -> ReadOk(Some(Tok("End", 0)), r.rdr)
           [] IsDigit(r.val[1]) -> LengthToken(read_length(r.rdr, r.val))
           [] OTHER -> ReadErr("UnexpectedToken(" \o r.val[1] \o ")", r.rdr)

\* Decoder::decode_token: val is Some(token), or None at end-of-stream.
decode_token(rdr) == TokenFrom(read_exact(rdr, 1))

\* Decoder::push_next_token on what decode_token returned: the token, if
\* there is one, is pushed.  err is "" on success, d the decoder left.
push_next_token(t, tokens) == [err |-> t.err, d |-> Decoder(t.rdr, tokens \o t.val)]

\* Decoder::ensure_token: a token is decoded and pushed when the stack is
\* empty.
ensure_token_AlwaysPush(d) == push_next_token(decode_token(d.rdr), d.tokens)

ensure_token(d) ==
    IF d.tokens # <<>> THEN [err |-> "", d |-> d]
    ELSE push_next_token(decode_token(d.rdr), d.tokens)

\* self.tokens.pop() after ensure_token: tok is Some(the top of the stack),
\* or None.
Popped(e) ==
    IF e.err # "" \/ e.d.tokens = <<>> THEN [err |-> e.err, tok |-> None, d |-> e.d]
    ELSE [err |-> "", tok |-> Some(Last(e.d.tokens)),
          d |-> Decoder(e.d.rdr, Front(e.d.tokens))]

\* self.tokens.last() after ensure_token: the token stays on the stack.
Peeked(e) ==
    IF e.err # "" \/ e.d.tokens = <<>> THEN [err |-> e.err, tok |-> None, d |-> e.d]
    ELSE [err |-> "", tok |-> Some(Last(e.d.tokens)), d |-> e.d]

\* Decoder::pop_token and Decoder::peek_token.
pop_token(d) == Popped(ensure_token(d))
peek_token(d) == Peeked(ensure_token(d))

RECURSIVE read_object(_), ListLoop(_, _), DictLoop(_, _, _), read_dict_pair(_)

\* objs_read.push(self.read_object()?.ok_or(UnexpectedEOF)?) and the next
\* turn of the loop, o what read_object returned.
ListPush(o, objs_read) ==
    IF o.kind = "err" THEN o
    ELSE IF o.kind = "none" THEN ResErr("UnexpectedEOF", o.d)
    ELSE ListLoop(o.d, Append(objs_read, o.obj))

\* Variant of ListStep: the end of the stream closes the list as 'e' does.
ListStep_EofCloses(p, objs_read) ==
    IF p.err # "" THEN ResErr(p.err, p.d)
    ELSE IF p.tok = None THEN ResSome(ObjList(objs_read), p.d)
    ELSE IF p.tok[1].t = "End" THEN ResSome(ObjList(objs_read), pop_token(p.d).d)
    ELSE ListPush(read_object(p.d), objs_read)

\* Variant of ListStep: the 'e' that closes the list stays on the stack.
ListStep_EndStays(p, objs_read) ==
    IF p.err # "" THEN ResErr(p.err, p.d)
    ELSE IF p.tok = None THEN ResErr("UnexpectedEOF", p.d)
    ELSE IF p.tok[1].t = "End" THEN ResSome(ObjList(objs_read), p.d)
    ELSE ListPush(read_object(p.d), objs_read)

\* One turn of the loop of read_object on Token::List, p what peek_token
\* returned, objs_read the elements so far.
ListStep(p, objs_read) ==
    IF p.err # "" THEN ResErr(p.err, p.d)
    ELSE IF p.tok = None THEN ResErr("UnexpectedEOF", p.d)
    ELSE IF p.tok[1].t = "End" THEN ResSome(ObjList(objs_read), pop_token(p.d).d)
    ELSE ListPush(read_object(p.d), objs_read)

\* The loop of read_object on Token::List.
ListLoop(d, objs_read) == ListStep(peek_token(d), objs_read)

\* Ok((dict_key, dict_val)) of read_dict_pair, dict_val what read_object
\* returned: the pair as a Dict of that one pair.
PairOf(dict_key, dict_val) ==
    IF dict_val.kind = "err" THEN dict_val
    ELSE IF dict_val.kind = "none" THEN ResErr("UnexpectedEOF", dict_val.d)
    ELSE ResSome(ObjDict(<<dict_key>>, <<dict_val.obj>>), dict_val.d)

\* read_dict_pair after read_str returned dict_key.
PairValue(dict_key, tokens) ==
    IF dict_key.err # "" THEN ResErr(dict_key.err, Decoder(dict_key.rdr, tokens))
    ELSE PairOf(dict_key.val, read_object(Decoder(dict_key.rdr, tokens)))

\* Variant of PairFrom: a token that is no length in key position is reported
\* as at the start of a value.
PairFrom_ObjectStart(p) ==
    IF p.err # "" THEN ResErr(p.err, p.d)
    ELSE IF p.tok = None THEN ResErr("UnexpectedEOF", p.d)
    ELSE IF p.tok[1].t # "Length"
         THEN ResErr("ExpectedObjectStart(" \o p.tok[1].t \o ")", p.d)
    ELSE PairValue(read_str(p.d.rdr, p.tok[1].n), p.d.tokens)

\* read_dict_pair after pop_token returned p.
PairFrom(p) ==
    IF p.err # "" THEN ResErr(p.err, p.d)
    ELSE IF p.tok = None THEN ResErr("UnexpectedEOF", p.d)
    ELSE IF p.tok[1].t # "Length"
         THEN ResErr("ExpectedDictKey(" \o p.tok[1].t \o ")", p.d)
    ELSE PairValue(read_str(p.d.rdr, p.tok[1].n), p.d.tokens)

\* Decoder::read_dict_pair.
read_dict_pair(d) == PairFrom(pop_token(d))

\* Variant of DictPush: a pair replaces the pair read before it with the same
\* key, as an insert into a map does.
DictPush_Replace(pair, keys, vals) ==
    IF pair.kind = "err" THEN pair
    ELSE IF \E i \in 1..Len(keys) : keys[i] = pair.obj.k[1]
         THEN DictLoop(pair.d, keys,
                       [i \in 1..Len(vals) |->
                           IF keys[i] = pair.obj.k[1] THEN pair.obj.v[1] ELSE vals[i]])
    ELSE DictLoop(pair.d, keys \o pair.obj.k, vals \o pair.obj.v)

\* pairs_read.push(pair) and the next turn of the loop, pair what
\* read_dict_pair returned.
DictPush(pair, keys, vals) ==
    IF pair.kind = "err" THEN pair
    ELSE DictLoop(pair.d, keys \o pair.obj.k, vals \o pair.obj.v)

\* Variant of DictStep: the end of the stream closes the map as 'e' does.
DictStep_EofCloses(p, keys, vals) ==
    IF p.err # "" THEN ResErr(p.err, p.d)
    ELSE IF p.tok = None THEN ResSome(ObjDict(keys, vals), p.d)
    ELSE IF p.tok[1].t = "End" THEN ResSome(ObjDict(keys, vals), pop_token(p.d).d)
    ELSE DictPush(read_dict_pair(p.d), keys, vals)

\* One turn of the loop of read_object on Token::Dict, p what peek_token
\* returned, the pairs so far as keys and vals.
DictStep(p, keys, vals) ==
    IF p.err # "" THEN ResErr(p.err, p.d)
    ELSE IF p.tok = None THEN ResErr("UnexpectedEOF", p.d)
    ELSE IF p.tok[1].t = "End" THEN ResSome(ObjDict(keys, vals), pop_token(p.d).d)
    ELSE DictPush(read_dict_pair(p.d), keys, vals)

\* The loop of read_object on Token::Dict.
DictLoop(d, keys, vals) == DictStep(peek_token(d), keys, vals)

\* Ok(Some(Object::Number(int_num))) of read_object, r what read_int
\* returned.
NumberFrom(r, tokens) ==
    IF r.err # "" THEN ResErr(r.err, Decoder(r.rdr, tokens))
    ELSE ResSome(ObjNumber(r.val), Decoder(r.rdr, tokens))

\* Ok(Some(Object::BBytes(bytes))) of read_object, r what read_str returned.
BBytesFrom(r, tokens) ==
    IF r.err # "" THEN ResErr(r.err, Decoder(r.rdr, tokens))
    ELSE ResSome(ObjBBytes(r.val), Decoder(r.rdr, tokens))

\* Variant of ObjectFrom: an 'e' where a value would start ends the stream
\* of values as the end of the stream does.
ObjectFrom_EndIsNone(p) ==
    IF p.err # "" THEN ResErr(p.err, p.d)
    ELSE IF p.tok = None THEN ResNone(p.d)
    ELSE CASE p.tok[1].t = "List" -> ListLoop(p.d, <<>>)
           [] p.tok[1].t = "Dict" -> DictLoop(p.d, <<>>, <<>>)
           [] p.tok[1].t = "Int" -> NumberFrom(read_int(p.d.rdr), p.d.tokens)
           [] p.tok[1].t = "Length" ->
                BBytesFrom(read_str(p.d.rdr, p.tok[1].n), p.d.tokens)
           [] OTHER -> ResNone(p.d)

\* read_object after pop_token returned p.
ObjectFrom(p) ==
    IF p.err # "" THEN ResErr(p.err, p.d)
    ELSE IF p.tok = None THEN ResNone(p.d)
    ELSE CASE p.tok[1].t = "List" -> ListLoop(p.d, <<>>)
           [] p.tok[1].t = "Dict" -> DictLoop(p.d, <<>>, <<>>)
           [] p.tok[1].t = "Int" -> NumberFrom(read_int(p.d.rdr), p.d.tokens)
           [] p.tok[1].t = "Length" ->
                BBytesFrom(read_str(p.d.rdr, p.tok[1].n), p.d.tokens)
           [] OTHER -> ResErr("ExpectedObjectStart(" \o p.tok[1].t \o ")", p.d)

\* Decoder::read_object.
read_object(d) == ObjectFrom(pop_token(d))

\* Bounds of the decoder's inputs.
MaxRaw == 4     \* bytes of an arbitrary input
MaxReads == 3   \* calls of read_object on one Decoder

\* The bytes arbitrary inputs are made of.
RawAlphabet == {"i", "l", "d", "e", ":", "-", "+", "0", "1", "2", "a"}

\* Every byte sequence of at most MaxRaw bytes, and some with a byte that is
\* no UTF-8.
RawInputs ==
    UNION {[1..n -> RawAlphabet] : n \in 0..MaxRaw}
    \cup {<<ByteFF>>, <<"i", ByteFF, "e">>, <<"1", ByteFF, ":">>}

\* The text of the integer n in base 10.
IntText(n) == IF n < 0 THEN <<"-">> \o Decimal(0 - n) ELSE Decimal(n)

\* The wire encoding of an Object.
RECURSIVE Enc(_), EncAll(_), EncDictPairs(_, _)
Enc(o) ==
    CASE o.t = "Number" -> <<"i">> \o IntText(o.n) \o <<"e">>
      [] o.t = "BBytes" -> EmitStr(o.b)
      [] o.t = "List" -> <<"l">> \o EncAll(o.v) \o <<"e">>
      [] o.t = "Dict" -> <<"d">> \o EncDictPairs(o.k, o.v) \o <<"e">>

EncAll(os) == IF os = <<>> THEN <<>> ELSE Enc(os[1]) \o EncAll(Tail(os))

EncDictPairs(ks, os) ==
    IF ks = <<>> THEN <<>>
    ELSE EmitStr(ks[1]) \o Enc(os[1]) \o EncDictPairs(Tail(ks), Tail(os))

\* The Objects whose encodings are inputs: integers and byte strings, the
\* lists of at most two and the maps of at most one pair over them, and the
\* lists and maps over those.
Leaves ==
    { ObjNumber(0 - 42), ObjNumber(0), ObjBBytes(<<>>), ObjBBytes(<<"i", "e">>) }

DictKeys == { <<"a">>, <<"l">> }

ListsOver(S) ==
    {ObjList(<<>>)} \cup {ObjList(<<x>>) : x \in S}
    \cup {ObjList(<<x, y>>) : x \in S, y \in S}

DictsOver(S) ==
    {ObjDict(<<>>, <<>>)} \cup {ObjDict(<<k>>, <<x>>) : k \in DictKeys, x \in S}

Trees1 == Leaves \cup ListsOver(Leaves) \cup DictsOver(Leaves)

\* The maps of two pairs, the two keys in either order or the same key twice.
TwoPairDicts ==
    {ObjDict(<<k1, k2>>, <<x, y>>) :
        k1 \in DictKeys, k2 \in DictKeys,
        x \in {ObjNumber(0), ObjBBytes(<<>>)}, y \in {ObjNumber(0), ObjBBytes(<<>>)}}

Trees ==
    Trees1 \cup ListsOver(Trees1) \cup DictsOver(Trees1) \cup TwoPairDicts
    \cup { ObjBBytes(<<"a", "b", "c", "d", "e", "f", "g", "h", "i", "j", "k">>) }

\* The values a stream holds one after the other, two of them.
SeqItems ==
    { ObjNumber(0 - 42), ObjBBytes(<<"i", "e">>), ObjList(<<>>),
      ObjList(<<ObjNumber(0)>>), ObjDict(<<<<"a">>>>, <<ObjBBytes(<<>>)>>) }

ValueSeqs == {<<x, y>> : x \in SeqItems, y \in SeqItems}

\* The maps of one pair among them.
OnePairDicts == {o \in Trees : o.t = "Dict" /\ Len(o.k) = 1}

\* Inputs that break the encoding of a map o of one pair: the 'e' that closes
\* the map replaced by a byte that starts no key, and an 'e' in the place of
\* the value.
BrokenDicts(o) ==
    {Front(Enc(o)) \o <<c>> : c \in {"i", "l", "d", "a"}}
    \cup {<<"d">> \o EmitStr(o.k[1]) \o <<"e">>}

\* The nonempty prefixes of bytes: the stream ends there.
Prefixes(bytes) == {SubSeq(bytes, 1, n) : n \in 1..Len(bytes)}

\* No Decoder exists.
DecIdle ==
    /\ input = <<>>
    /\ tree = None
    /\ decoder = Decoder(<<>>, <<>>)
    /\ decoded = <<>>

(***************************************************************************)
(* The store of sessions (src/config.rs): the table sessions of the        *)
(* database, addr its primary key.  A text is the sequence of its          *)
(* characters.                                                             *)
(***************************************************************************)
\* config::Session.
Session(addr, sid, ops) == [addr |-> addr, session |-> sid, ops |-> ops]

\* `session.ops.join(",")` of save_session.
RECURSIVE Join(_)
Join(ops) ==
    IF ops = <<>> THEN <<>>
    ELSE IF Len(ops) = 1 THEN ops[1]
    ELSE ops[1] \o <<",">> \o Join(Tail(ops))

\* `.split(",").map(|s| s.to_string()).collect()` of load_session: the
\* pieces of the text between its commas; the empty text has one piece.
RECURSIVE Split(_)
Split(text) ==
    IF "," \notin Range(text) THEN <<text>>
    ELSE <<SubSeq(text, 1, FirstAt(text, ",") - 1)>>
         \o Split(SubSeq(text, FirstAt(text, ",") + 1, Len(text)))

\* The row save_session writes for a Session.
RowOf(x) == <<x.addr, x.session, Join(x.ops)>>

\* INSERT OR REPLACE INTO sessions: the row replaces the one of its addr.
InsertOrReplace(rows, row) == {r \in rows : r[1] # row[1]} \cup {row}

\* load_session: the Session made of the row of the address, None when
\* there is no such row.
load_session(rows, addr) ==
    IF \E r \in rows : r[1] = addr
    THEN LET r == CHOOSE r \in rows : r[1] = addr IN
         Some(Session(r[1], r[2], Split(r[3])))
    ELSE None

\* No process uses the store.
StoreIdle ==
    /\ db = {}
    /\ stPc = "off"
    /\ stSession = Session("", "", <<>>)
    /\ stLoaded = None

(***************************************************************************)
(* The state machine.                                                      *)
(***************************************************************************)
\* No process of the one-process state machine is running.
ProcIdle ==
    /\ pc = "off"
    /\ connAddr = "a1"
    /\ unread = <<>>
    /\ xpc = "none"
    /\ xerr = ""
    /\ delivered = <<>>
    /\ eof = FALSE
    /\ resps = <<>>
    /\ sentOps = <<>>
    /\ written = ""
    /\ store0 = {}
    /\ mbSessionId = None
    /\ lsResult = <<>>
    /\ newSessionId = None
    /\ result = Err("")
    /\ timedOut = ""
    /\ session = None
    /\ died = ""

\* No concurrent resolution is running.
ConcIdle ==
    /\ procs = [p \in Procs |-> [ProcStart EXCEPT !.pc = "off"]]
    /\ lock = ""

Init ==
    /\ live = [a \in Addrs |-> {}]
    /\ nextId = 1
    /\ sessionsFile = {}
    /\ ProcIdle
    /\ StoreIdle
    /\ ConcIdle
    /\ EncIdle
    /\ DecIdle

\* The encoded operation against the capacity of the BufWriter send_op
\* builds: "small" fits its buffer, "big" does not.  The operations without
\* a text of the user are small.
Sizes(o) == IF o \in {"clone", "ls-sessions"} THEN {"small"} ELSE {"small", "big"}

\* What the TcpStream takes of the bytes given to it before it fails or
\* returns a short count: all of them, a proper prefix, none.
Taken == {"all", "prefix", "none"}

\* The writes of the operation o: its size and what the transport takes.
Writes(o) == {[size |-> z, taken |-> t] : z \in Sizes(o), t \in Taken}

\* NreplStream::send_op: `bw.write(&bencode)` on a new BufWriter, the `?` on
\* its result, and the drop of the BufWriter at the end of the function.
\* A small operation is copied into the buffer, write returns Ok, and the
\* drop flushes the buffer and discards the error of the flush.  A big one
\* goes to TcpStream::write in one call; its error is returned, the count of
\* a short write is dropped.
send_op(w) ==
    [ok |-> ~(w.size = "big" /\ w.taken = "none"), handed |-> w.taken]

\* NreplStream::op up to its first read: send_op and the `?` on its result.
BeginExchange(o, w) ==
    /\ delivered' = <<>>
    /\ eof' = FALSE
    /\ resps' = <<>>
    /\ written' = send_op(w).handed
    /\ IF send_op(w).ok
       THEN /\ xpc' = "reading"
            /\ xerr' = ""
            /\ sentOps' = Append(sentOps, o)
       ELSE /\ xpc' = "err"
            /\ xerr' = "IOError"
            /\ sentOps' = sentOps

\* main.rs nrepl_stream / NreplStream::connect_timeout: a process starts and
\* connects to the server of address a.
Connect(a) ==
    /\ pc = "off"
    /\ pc' = "idle"
    /\ connAddr' = a
    /\ UNCHANGED <<live, nextId, sessionsFile, unread, xpc, xerr, delivered, eof, resps,
                   sentOps, written, store0, mbSessionId, lsResult, newSessionId, result>>
    /\ UNCHANGED auxVars
    /\ UNCHANGED docVars

\* cmd::op::run: NreplStream::op of the user's operation, up to its first read.
CmdOp(o, w) ==
    /\ pc = "idle"
    /\ pc' = "op"
    /\ BeginExchange(o, w)
    /\ UNCHANGED <<live, nextId, sessionsFile, connAddr, unread, store0, mbSessionId,
                   lsResult, newSessionId, result>>
    /\ UNCHANGED auxVars
    /\ UNCHANGED docVars

\* What a read finds on the connection: the messages waiting there, or,
\* when none is waiting, the message m the server sends now.
Arrived(m) == IF unread = <<>> THEN <<m>> ELSE unread

\* read_resp's `Deserializer::new(&self.tcp)` and the deserialize of one
\* Value from the connection conn: the deserializer reads from the TcpStream
\* itself, byte by byte and by the announced lengths, so it takes the bytes
\* of the first message and leaves the others on the connection.
Deserialized_Buffered(conn) == [val |-> Head(conn), rest |-> <<>>]

Deserialized(conn) == [val |-> Head(conn), rest |-> Tail(conn)]

\* One turn of the loop of NreplStream::op: read_resp decodes the next
\* message m of the server, the Response is pushed, and the loop ends when it
\* is final.  The server answers an operation it received whole.
ReadResp(m) ==
    /\ xpc = "reading"
    /\ written = "all"
    /\ Len(delivered) < (IF pc = "op" THEN MaxMsgs ELSE MaxSessionMsgs)
    /\ m \in ServerMsgs(CurOp, connAddr)
    /\ m = Deserialized(Arrived(m)).val
    /\ unread' = Deserialized(Arrived(m)).rest
    /\ delivered' = Append(delivered, m)
    /\ IF Issues(m) # {}
       THEN /\ live' = [live EXCEPT ![connAddr] = @ \cup Issues(m)]
            /\ nextId' = nextId + 1
       ELSE UNCHANGED <<live, nextId>>
    /\ CASE ReadOutcome(m) = "panic" ->
              /\ xpc' = "panic"
              /\ pc' = "panicked"
              /\ UNCHANGED <<xerr, resps>>
         [] ReadOutcome(m) = "err" ->
              /\ xpc' = "err"
              /\ xerr' = "BencodeFormatError"
              /\ UNCHANGED <<pc, resps>>
         [] OTHER ->
              /\ resps' = PushResp(resps, RespOf(m))
              /\ xpc' = IF is_final_resp(RespOf(m)) THEN "ok" ELSE "reading"
              /\ UNCHANGED <<pc, xerr>>
    /\ UNCHANGED <<sessionsFile, connAddr, eof, sentOps, written, store0,
                   mbSessionId, lsResult, newSessionId, result>>
    /\ UNCHANGED auxVars
    /\ UNCHANGED docVars

\* read_resp when the peer has closed the connection and nothing it sent
\* is left to read: the deserializer returns an error and the unwrap panics.
ReadEof ==
    /\ xpc = "reading"
    /\ unread = <<>>
    /\ eof' = TRUE
    /\ xpc' = "panic"
    /\ pc' = "panicked"
    /\ UNCHANGED <<live, nextId, sessionsFile, connAddr, unread, xerr, delivered, resps,
                   sentOps, written, store0, mbSessionId, lsResult, newSessionId, result>>
    /\ UNCHANGED auxVars
    /\ UNCHANGED docVars

\* cmd::op::run after NreplStream::op returned: the unwrap, then the printing.
CmdOpReturn ==
    /\ pc = "op"
    /\ xpc \in {"ok", "err"}
    /\ pc' = IF xpc = "ok" THEN "done" ELSE "panicked"
    /\ UNCHANGED <<live, nextId, sessionsFile, connAddr, unread, xpc, xerr, delivered, eof,
                   resps, sentOps, written, store0, mbSessionId, lsResult, newSessionId,
                   result>>
    /\ UNCHANGED auxVars
    /\ UNCHANGED docVars


\* load_session_id: the session id the sessions file holds for the address.
load_session_id(file, a) == HashMapRemove(file, a)

\* session::Error as get_existing_session_id returns it: From<std::io::Error>
\* gives IOError, From<config::Error> ConfigError, and the error of an
\* operation is carried by OpError.
IOError == "IOError"

ConfigError == "ConfigError"

OpError(e) == "OpError(" \o e \o ")"

\* get_existing_session_id up to its first read from the connection:
\* load_session_id (loadOk: no I/O error), then the ls-sessions operation is
\* written when an id is stored, the clone operation when none is (w: its
\* write).
GetExistingSessionId(loadOk, w) ==
    /\ pc = "idle"
    /\ store0' = sessionsFile
    /\ IF ~loadOk
       THEN /\ pc' = "done"
            /\ result' = Err(IOError)
            /\ UNCHANGED <<mbSessionId, xpc, xerr, delivered, eof, resps, sentOps, written>>
       ELSE /\ mbSessionId' = load_session_id(sessionsFile, connAddr)
            /\ pc' = IF mbSessionId' # None THEN "ls" ELSE "clone"
            /\ BeginExchange(IF mbSessionId' # None THEN "ls-sessions" ELSE "clone",
                             w)
            /\ UNCHANGED result
    /\ UNCHANGED <<live, nextId, sessionsFile, connAddr, unread, lsResult, newSessionId>>
    /\ UNCHANGED auxVars
    /\ UNCHANGED docVars

\* get_existing_session_id after LsSessions::send returned: session_id_exists
\* decides between returning the stored id and writing the clone operation.
LsSessionsReturn(w) ==
    /\ pc = "ls"
    /\ xpc \in {"ok", "err"}
    /\ LET r == LsSessionsSend(xpc, xerr, resps) IN
       IF ~r.ok
       THEN /\ pc' = "done"
            /\ result' = Err(OpError(r.err))
            /\ UNCHANGED <<lsResult, xpc, xerr, delivered, eof, resps, sentOps, written>>
       ELSE /\ lsResult' = r.val
            /\ IF session_id_exists(r.val, mbSessionId[1])
               THEN /\ pc' = "done"
                    /\ result' = Ok(mbSessionId)
                    /\ UNCHANGED <<xpc, xerr, delivered, eof, resps, sentOps, written>>
               ELSE /\ pc' = "clone"
                    /\ BeginExchange("clone", w)
                    /\ UNCHANGED result
    /\ UNCHANGED <<live, nextId, sessionsFile, connAddr, unread, store0, mbSessionId,
                   newSessionId>>
    /\ UNCHANGED auxVars
    /\ UNCHANGED docVars

\* create_session after CloneSession::send returned.
CloneSessionReturn ==
    /\ pc = "clone"
    /\ xpc \in {"ok", "err"}
    /\ LET r == CloneSessionSend(xpc, xerr, resps) IN
       IF ~r.ok
       THEN /\ pc' = "done"
            /\ result' = Err(OpError(r.err))
            /\ UNCHANGED newSessionId
       ELSE /\ pc' = "save"
            /\ newSessionId' = r.val
            /\ UNCHANGED result
    /\ UNCHANGED <<live, nextId, sessionsFile, connAddr, unread, xpc, xerr, delivered, eof,
                   resps, sentOps, written, store0, mbSessionId, lsResult>>
    /\ UNCHANGED auxVars
    /\ UNCHANGED docVars

\* save_session_id and the return of get_existing_session_id.  how is "ok",
\* "fail_before" (an I/O error before the file is truncated: ensure_config_dir,
\* open, lock_exclusive, set_len), "fail_parse" (parse_sessions fails) or
\* "fail_write" (the write fails after set_len(0)).
SaveSessionId(how) ==
    /\ pc = "save"
    /\ pc' = "done"
    /\ CASE how = "ok" ->
              /\ sessionsFile' = HashMapInsert(parse_sessions(sessionsFile),
                                               connAddr, newSessionId[1])
              /\ result' = Ok(newSessionId)
         [] how = "fail_before" ->
              /\ sessionsFile' = sessionsFile
              /\ result' = Err(IOError)
         [] how = "fail_parse" ->
              /\ sessionsFile' = sessionsFile
              /\ result' = Err(ConfigError)
         [] OTHER ->
              /\ sessionsFile' = {}
              /\ result' = Err(IOError)
    /\ UNCHANGED <<live, nextId, connAddr, unread, xpc, xerr, delivered, eof, resps,
                   sentOps, written, store0, mbSessionId, lsResult, newSessionId>>
    /\ UNCHANGED auxVars
    /\ UNCHANGED docVars

\* The process ends: its command is done, it panicked, or cmd::die_err
\* ended it.
Exit ==
    /\ pc \in {"done", "panicked", "died", "docdone"}
    /\ pc' = "off"
    /\ xpc' = "none"
    /\ xerr' = ""
    /\ delivered' = <<>>
    /\ eof' = FALSE
    /\ resps' = <<>>
    /\ sentOps' = <<>>
    /\ written' = ""
    /\ store0' = {}
    /\ mbSessionId' = None
    /\ lsResult' = <<>>
    /\ newSessionId' = None
    /\ result' = Err("")
    /\ timedOut' = ""
    /\ session' = None
    /\ died' = ""
    /\ unread' = <<>>
    /\ UNCHANGED <<live, nextId, sessionsFile, connAddr>>
    /\ UNCHANGED auxVars

\* The server of address a restarts while no client is connected: it forgets
\* its sessions.
ServerRestart(a) ==
    /\ pc = "off"
    /\ live[a] # {}
    /\ live' = [live EXCEPT ![a] = {}]
    /\ UNCHANGED <<nextId, sessionsFile, pc, connAddr, unread, xpc, xerr, delivered, eof,
                   resps, sentOps, written, store0, mbSessionId, lsResult, newSessionId,
                   result>>
    /\ UNCHANGED auxVars
    /\ UNCHANGED docVars

\* The variables of the exchange in flight.
exchVars == <<xpc, xerr, delivered, eof, resps, sentOps, written>>

\* main.rs nrepl_stream when the connection cannot be opened:
\* connect_timeout returns Err(IOError(e)), e of kind TimedOut after 3 s
\* without an answer or ConnectionRefused, and cmd::die_err ends the process.
ConnectFail(a, kind) ==
    /\ pc = "off"
    /\ pc' = "died"
    /\ connAddr' = a
    /\ timedOut' = IF kind = "TimedOut" THEN "connect" ELSE ""
    /\ died' = "IOError(" \o kind \o ")"
    /\ UNCHANGED <<live, nextId, sessionsFile, unread, exchVars, store0,
                   mbSessionId, lsResult, newSessionId, result, session>>
    /\ UNCHANGED auxVars

\* read_resp when the read timeout of the socket (5 s) expires: the
\* deserializer returns the I/O error and the unwrap panics.
ReadTimeout ==
    /\ xpc = "reading"
    /\ unread = <<>>
    /\ timedOut' = "read"
    /\ xpc' = "panic"
    /\ pc' = "panicked"
    /\ UNCHANGED <<live, nextId, sessionsFile, connAddr, unread, xerr, delivered, eof, resps,
                   sentOps, written, store0, mbSessionId, lsResult, newSessionId, result,
                   session, died>>
    /\ UNCHANGED auxVars

\* cmd::doc::run after get_existing_session_id returned Ok: GetNsName::send
\* up to its first read.  The locals of get_existing_session_id are gone.
DocGetNsName(w) ==
    /\ pc = "done"
    /\ result.ok
    /\ pc' = "ns"
    /\ BeginExchange("eval", w)
    /\ store0' = {}
    /\ mbSessionId' = None
    /\ lsResult' = <<>>
    /\ newSessionId' = None
    /\ UNCHANGED <<live, nextId, sessionsFile, connAddr, unread, result, docVars>>
    /\ UNCHANGED auxVars

\* cmd::doc::run after GetNsName::send returned: die_if_err, ns.unwrap(),
\* then Info::send on a Session with the operations ops, up to its first
\* read: Err(InfoOpUnavailable) before anything is written when "info" is
\* not among them.
GetNsNameReturn(ops, w) ==
    /\ pc = "ns"
    /\ xpc \in {"ok", "err"}
    /\ LET r == GetNsNameSend(xpc, xerr, resps) IN
       CASE ~r.ok ->
              /\ pc' = "died"
              /\ died' = r.err
              /\ UNCHANGED <<session, exchVars>>
         [] r.ok /\ r.val = None ->
              /\ pc' = "panicked"
              /\ UNCHANGED <<session, died, exchVars>>
         [] OTHER ->
              /\ session' = Some(ops)
              /\ IF InfoUnavailable(ops)
                 THEN /\ pc' = "died"
                      /\ died' = "InfoOpUnavailable"
                      /\ UNCHANGED exchVars
                 ELSE /\ pc' = "info"
                      /\ BeginExchange("info", w)
                      /\ UNCHANGED died
    /\ UNCHANGED <<live, nextId, sessionsFile, connAddr, unread, store0, mbSessionId,
                   lsResult, newSessionId, result, timedOut>>
    /\ UNCHANGED auxVars

\* cmd::doc::run after NreplStream::op returned in Info::send: the rest of
\* Info::send, die_if_err, and the printing.
InfoReturn ==
    /\ pc = "info"
    /\ xpc \in {"ok", "err"}
    /\ LET r == InfoSend(xpc, xerr, resps) IN
       /\ pc' = IF r.ok THEN "docdone"
                ELSE IF r.err = "panic" THEN "panicked" ELSE "died"
       /\ died' = IF r.ok \/ r.err = "panic" THEN died ELSE r.err
    /\ UNCHANGED <<live, nextId, sessionsFile, connAddr, unread, exchVars, store0,
                   mbSessionId, lsResult, newSessionId, result, timedOut, session>>
    /\ UNCHANGED auxVars

Next ==
    \/ \E a \in Addrs : Connect(a)
    \/ \E o \in UserOps : \E w \in Writes(o) : CmdOp(o, w)
    \/ \E m \in ServerMsgs(CurOp, connAddr) : ReadResp(m)
    \/ ReadEof
    \/ CmdOpReturn
    \/ \E l \in BOOLEAN, w \in Writes("clone") : GetExistingSessionId(l, w)
    \/ \E w \in Writes("clone") : LsSessionsReturn(w)
    \/ CloneSessionReturn
    \/ \E how \in {"ok", "fail_before", "fail_parse", "fail_write"} :
          SaveSessionId(how)
    \/ Exit
    \/ \E a \in Addrs : ServerRestart(a)
    \/ \E a \in Addrs, kind \in {"TimedOut", "ConnectionRefused"} : ConnectFail(a, kind)
    \/ ReadTimeout
    \/ \E w \in Writes("eval") : DocGetNsName(w)
    \/ \E ops \in SessionOps, w \in Writes("info") : GetNsNameReturn(ops, w)
    \/ InfoReturn

Spec == Init /\ [][Next]_vars

(***************************************************************************)
(* `unrepl op` against a server that sends ahead of the client's reads     *)
(* (SpecPipe): its messages wait on the connection until a read takes      *)
(* them.                                                                   *)
(***************************************************************************)
MaxAhead == 2  \* messages waiting unread on the connection

\* The messages the server sends ahead.
AheadMsgs ==
    { Msg(<<<<"x", Bytes("v")>>>>), Msg(<<<<"status", List(<<"done">>)>>>>) }

\* The server sends the message m on the connection on which it received an
\* operation, whether the client is reading or not.
ServerSend(m) ==
    /\ xpc \in {"reading", "ok"}
    /\ written = "all"
    /\ Len(unread) < MaxAhead
    /\ unread' = Append(unread, m)
    /\ UNCHANGED <<live, nextId, sessionsFile, pc, connAddr, exchVars, store0,
                   mbSessionId, lsResult, newSessionId, result, docVars>>
    /\ UNCHANGED auxVars

NextPipe ==
    \/ \E a \in Addrs : Connect(a)
    \/ \E o \in UserOps : \E w \in Writes(o) : CmdOp(o, w)
    \/ \E m \in AheadMsgs : ServerSend(m)
    \/ \E m \in ServerMsgs(CurOp, connAddr) : ReadResp(m)
    \/ ReadEof
    \/ CmdOpReturn
    \/ Exit

SpecPipe == Init /\ [][NextPipe]_vars


(***************************************************************************)
(* Two processes run get_existing_session_id concurrently, for the same     *)
(* address or for two (src/nrepl/session.rs).  A server answers every op   *)
(* with one well-formed terminal message, so that what is left to vary is  *)
(* the interleaving of the processes on the sessions file.                 *)
(***************************************************************************)
\* The address both processes resolve when they resolve the same one.
ConcAddr == "a1"

\* The addresses of the two processes: the same, or one each.
ProcAddrs ==
    { [p \in Procs |-> ConcAddr],
      [p \in Procs |-> IF p = "p1" THEN "a1" ELSE "a2"] }

\* An address neither process resolves, with an entry in the sessions file.
OtherAddr == "a3"

\* fs2's lock_exclusive on the sessions file by process p, l the holder of
\* the lock: it returns when no process holds the lock.
lock_exclusive_NoWait(l, p) == TRUE

lock_exclusive(l, p) == l = ""

\* The server's answer to ls-sessions and to clone, as NreplStream::op
\* returns it.
LsAnswer(a) ==
    <<RespOf(Msg(<<<<"sessions", List(SetToSeq(live[a]))>>,
                   <<"status", List(<<"done">>)>>>>))>>

CloneAnswer(n) ==
    <<RespOf(Msg(<<<<"new-session", Bytes(Id(n))>>,
                   <<"status", List(<<"done">>)>>>>))>>

\* The sessions file holds nothing, a stale entry or a live entry for the
\* address of the first process when the two processes start, and may hold
\* the entry of another address.
InitConc ==
    /\ live \in {[a \in Addrs |-> IF a = ConcAddr THEN l ELSE {}] :
                    l \in {{}, {Id(0)}}}
    /\ nextId = 1
    /\ sessionsFile \in {s \cup t : s \in {{}, {<<ConcAddr, Id(0)>>}},
                                    t \in {{}, {<<OtherAddr, Id(0)>>}}}
    /\ ProcIdle
    /\ StoreIdle
    /\ procs \in {[p \in Procs |-> [ProcStart EXCEPT !.addr = as[p]]] :
                    as \in ProcAddrs}
    /\ lock = ""
    /\ EncIdle
    /\ DecIdle

\* load_session_id, which takes no lock: the file is read as it is.
ProcLoad(p) ==
    /\ procs[p].pc = "start"
    /\ LET mb == load_session_id(sessionsFile, procs[p].addr) IN
       procs' = [procs EXCEPT ![p].mb = mb,
                              ![p].pc = IF mb # None THEN "ls" ELSE "clone"]
    /\ UNCHANGED <<live, nextId, sessionsFile, procVars, lock, encVars, decVars, storeVars>>

\* session_id_exists on the stored id: it is returned when the server lists
\* it, else the process goes on to create_session.
ProcLsSessions(p) ==
    /\ procs[p].pc = "ls"
    /\ LET r == LsSessionsSend("ok", "", LsAnswer(procs[p].addr)) IN
       procs' = IF session_id_exists(r.val, procs[p].mb[1])
                THEN [procs EXCEPT ![p].pc = "done",
                                   ![p].result = Ok(procs[p].mb)]
                ELSE [procs EXCEPT ![p].pc = "clone"]
    /\ UNCHANGED <<live, nextId, sessionsFile, procVars, lock, encVars, decVars, storeVars>>

\* create_session: the server issues a fresh identifier.
ProcCreateSession(p) ==
    /\ procs[p].pc = "clone"
    /\ live' = [live EXCEPT ![procs[p].addr] = @ \cup {Id(nextId)}]
    /\ nextId' = nextId + 1
    /\ procs' = [procs EXCEPT
                    ![p].new = CloneSessionSend("ok", "", CloneAnswer(nextId)).val,
                    ![p].pc = "save"]
    /\ UNCHANGED <<sessionsFile, procVars, lock, encVars, decVars, storeVars>>

\* save_session_id up to sessions.insert: the file is opened, lock_exclusive
\* waits until no other process holds the lock, the file is parsed and the
\* entry of the address is replaced in the parsed map.
ProcLockAndParse(p) ==
    /\ procs[p].pc = "save"
    /\ lock_exclusive(lock, p)
    /\ lock' = p
    /\ procs' = [procs EXCEPT
                    ![p].parsed = parse_sessions(sessionsFile),
                    ![p].sessions = HashMapInsert(parse_sessions(sessionsFile),
                                                  procs[p].addr, procs[p].new[1]),
                    ![p].pc = "locked"]
    /\ UNCHANGED <<live, nextId, sessionsFile, procVars, encVars, decVars, storeVars>>

\* f.set_len(0) of save_session_id.
ProcSetLen(p) ==
    /\ procs[p].pc = "locked"
    /\ sessionsFile' = {}
    /\ procs' = [procs EXCEPT ![p].pc = "truncated"]
    /\ UNCHANGED <<live, nextId, procVars, lock, encVars, decVars, storeVars>>

\* f.write of save_session_id and the return of get_existing_session_id:
\* the file is closed, which releases the lock.
ProcWrite(p) ==
    /\ procs[p].pc = "truncated"
    /\ sessionsFile' = procs[p].sessions
    /\ lock' = ""
    /\ procs' = [procs EXCEPT ![p].pc = "done",
                               ![p].result = Ok(procs[p].new)]
    /\ UNCHANGED <<live, nextId, procVars, encVars, decVars, storeVars>>

NextConc ==
    \/ \E p \in Procs : ProcLoad(p)
    \/ \E p \in Procs : ProcLsSessions(p)
    \/ \E p \in Procs : ProcCreateSession(p)
    \/ \E p \in Procs : ProcLockAndParse(p)
    \/ \E p \in Procs : ProcSetLen(p)
    \/ \E p \in Procs : ProcWrite(p)

SpecConc == InitConc /\ [][NextConc]_vars


(***************************************************************************)
(* The encoder applied to an Op and to the same Op with its arguments      *)
(* inserted in another order.                                              *)
(***************************************************************************)
InitEnc ==
    /\ live = [a \in Addrs |-> {}]
    /\ nextId = 1
    /\ sessionsFile = {}
    /\ ProcIdle
    /\ StoreIdle
    /\ ConcIdle
    /\ encOp \in {Op(n, as) : n \in OpNames, as \in ArgLists}
    /\ encArgs2 \in Orderings(encOp.args)
    /\ encOut = None
    /\ encOut2 = None
    /\ DecIdle

\* send_op: self.to_bencode() of the Op, for both insertion orders.
Encode ==
    /\ encOut = None
    /\ encOut' = Some(to_bencode(encOp))
    /\ encOut2' = Some(to_bencode(Op(encOp.name, encArgs2)))
    /\ UNCHANGED <<live, nextId, sessionsFile, procVars, concVars, encOp, encArgs2,
                   decVars, storeVars>>

NextEnc == Encode

SpecEnc == InitEnc /\ [][NextEnc]_vars


(***************************************************************************)
(* A Decoder on a stream that holds the input and then ends, and the calls *)
(* of read_object on it.                                                   *)
(***************************************************************************)
InitDec ==
    /\ live = [a \in Addrs |-> {}]
    /\ nextId = 1
    /\ sessionsFile = {}
    /\ ProcIdle
    /\ StoreIdle
    /\ ConcIdle
    /\ EncIdle
    /\ \/ tree = None /\ input \in RawInputs
       \/ \E o \in Trees : tree = Some(o) /\ input \in Prefixes(Enc(o))
       \/ \E o \in OnePairDicts : tree = Some(o) /\ input \in BrokenDicts(o)
       \/ \E os \in ValueSeqs : tree = Some(ObjList(os)) /\ input = EncAll(os)
    /\ decoder = Decoder(input, <<>>)
    /\ decoded = <<>>

\* One call of Decoder::read_object; a caller goes on after a value.
ReadObject ==
    /\ Len(decoded) < MaxReads
    /\ \A n \in {Len(decoded)} \ {0} : decoded[n].kind = "some"
    /\ LET r == read_object(decoder) IN
       /\ decoder' = r.d
       /\ decoded' = Append(decoded, [kind |-> r.kind, obj |-> r.obj, err |-> r.err])
    /\ UNCHANGED <<live, nextId, sessionsFile, procVars, concVars, encVars, input,
                   tree, storeVars>>

NextDec == ReadObject

SpecDec == InitDec /\ [][NextDec]_vars

(***************************************************************************)
(* A Decoder on a stream whose bytes successive reads deliver in chunks,   *)
(* and the calls of read_object on it.                                     *)
(***************************************************************************)
MaxChunked == 3   \* bytes of an arbitrary input delivered in chunks

\* The bytes those inputs are made of.
ChunkAlphabet == {"i", "l", "d", "e", ":", "1", "a"}

ChunkedRaw == UNION {[1..n -> ChunkAlphabet] : n \in 0..MaxChunked}

\* The stream that delivers bytes with a read ending after each place of
\* cuts.
RECURSIVE Chunked(_, _)
Chunked(bytes, cuts) ==
    IF bytes = <<>> THEN <<>>
    ELSE Chunked(Front(bytes), cuts)
         \o (IF (Len(bytes) - 1) \in cuts THEN <<ChunkEnd>> ELSE <<>>)
         \o <<Last(bytes)>>

\* The places between two bytes: where a read can end.
Cuts(bytes) == 1..(Len(bytes) - 1)

\* The bytes a stream holds.
Unchunked(rdr) == SelectSeq(rdr, LAMBDA c : c # ChunkEnd)

\* The Objects whose encodings are delivered in chunks: integers and byte
\* strings, the lists and maps over them, and the lists of one element and
\* the maps of one pair over those.
StreamTrees ==
    Trees1 \cup {ObjList(<<x>>) : x \in Trees1} \cup DictsOver(Trees1)
    \cup TwoPairDicts
    \cup { ObjBBytes(<<"a", "b", "c", "d", "e", "f", "g", "h", "i", "j", "k">>) }

\* The stream delivers an arbitrary input or the encoding of an integer or
\* a byte string in every way, a prefix of an encoding one byte per read, or
\* an encoding in two reads.
InitStream ==
    /\ live = [a \in Addrs |-> {}]
    /\ nextId = 1
    /\ sessionsFile = {}
    /\ ProcIdle
    /\ StoreIdle
    /\ ConcIdle
    /\ EncIdle
    /\ \/ /\ tree = None
          /\ \E b \in ChunkedRaw : \E cuts \in SUBSET Cuts(b) :
                input = Chunked(b, cuts)
       \/ \E o \in StreamTrees :
             /\ tree = Some(o)
             /\ \/ \E b \in Prefixes(Enc(o)) : input = Chunked(b, Cuts(b))
                \/ \E n \in Cuts(Enc(o)) : input = Chunked(Enc(o), {n})
                \/ /\ o \in Leaves
                   /\ \E cuts \in SUBSET Cuts(Enc(o)) : input = Chunked(Enc(o), cuts)
    /\ decoder = Decoder(input, <<>>)
    /\ decoded = <<>>

NextStream == ReadObject

SpecStream == InitStream /\ [][NextStream]_vars

(***************************************************************************)
(* A process saves a Session in the store and loads the Session of an      *)
(* address (SpecStore).                                                    *)
(***************************************************************************)
MaxOps == 2   \* operation names of a Session

\* The operation names of the Sessions saved.
StoreOpNames == { <<"e", "v", "a", "l">>, <<"i", "n", "f", "o">>, <<"a", ",", "b">> }

\* The Sessions saved: an address, an identifier, at most MaxOps names.
Sessions ==
    { Session(a, Id(n), ops) :
        a \in Addrs, n \in 1..2,
        ops \in UNION {[1..k -> StoreOpNames] : k \in 0..MaxOps} }

\* The table holds nothing or an older row of the first address.
InitStore ==
    /\ live = [a \in Addrs |-> {}]
    /\ nextId = 1
    /\ sessionsFile = {}
    /\ ProcIdle
    /\ ConcIdle
    /\ EncIdle
    /\ DecIdle
    /\ db \in {{}, {RowOf(Session("a1", Id(0), <<<<"e", "v", "a", "l">>>>))}}
    /\ stPc = "start"
    /\ stSession \in Sessions
    /\ stLoaded = None

\* config::save_session of stSession; the statement succeeds (ok) or the
\* database returns an error and the table is as before.
SaveSession(ok) ==
    /\ stPc = "start"
    /\ stPc' = IF ok THEN "saved" ELSE "failed"
    /\ db' = IF ok THEN InsertOrReplace(db, RowOf(stSession)) ELSE db
    /\ UNCHANGED <<live, nextId, sessionsFile, procVars, concVars, encVars, decVars,
                   stSession, stLoaded>>

\* config::load_session of the address addr.
LoadSession(addr) ==
    /\ stPc = "saved"
    /\ stPc' = "loaded"
    /\ stLoaded' = load_session(db, addr)
    /\ UNCHANGED <<live, nextId, sessionsFile, procVars, concVars, encVars, decVars,
                   db, stSession>>

NextStore ==
    \/ \E ok \in BOOLEAN : SaveSession(ok)
    \/ \E a \in Addrs : LoadSession(a)

SpecStore == InitStore /\ [][NextStore]_vars


(***************************************************************************)
(* Properties of the exchange loop.                                        *)
(***************************************************************************)
\* The pairs of message m under key k.
PairsAt(m, k) == {i \in 1..Len(m.pairs) : m.pairs[i][1] = k}

HasStatus(m) == PairsAt(m, "status") # {}

\* m is a field map: a map with UTF-8 keys, no key twice.
FieldMap(m) ==
    /\ m.dict
    /\ BadUtf8Key \notin Keys(m.pairs)
    /\ \A i, j \in 1..Len(m.pairs) : m.pairs[i][1] = m.pairs[j][1] => i = j

\* Response r holds exactly the fields of field map m.
Rekeyed(r, m) ==
    /\ DOMAIN r = Keys(m.pairs)
    /\ \A i \in 1..Len(m.pairs) : r[m.pairs[i][1]] = m.pairs[i][2]

\* m1..mn are field maps of which only the last carries a status.
OnlyLastHasStatus(ms) ==
    /\ Len(ms) >= 1
    /\ \A i \in 1..Len(ms) : FieldMap(ms[i]) /\ (HasStatus(ms[i]) <=> i = Len(ms))

\* C1: whenever NreplStream::op returns successfully, the returned Responses
\* are non-empty, the last one holds a status field and no earlier one does.
C1_ReturnEndsWithTheOnlyStatus ==
    xpc = "ok" =>
        /\ Len(resps) >= 1
        /\ "status" \in DOMAIN resps[Len(resps)]
        /\ \A i \in 1..(Len(resps) - 1) : "status" \notin DOMAIN resps[i]

C1_Witness ==
    /\ xpc = "ok"
    /\ Len(resps) = 3
    /\ "status" \in DOMAIN resps[3]

\* C2: when the peer closes the connection before a Response with a status
\* was read, NreplStream::op returns Err(ConnectionLost); it neither returns
\* Ok nor panics.
C2_EofReturnsConnectionLost ==
    eof => (xpc = "err" /\ xerr = "ConnectionLost")

\* C3: when the server delivers field maps m1..mn of which only mn carries a
\* status, NreplStream::op returns exactly n Responses, the i-th holding the
\* fields of mi, and the status ["done"] classifies the exchange as Done.
C3_ResponsesAreTheMessagesInOrder ==
    OnlyLastHasStatus(delivered) =>
        /\ xpc = "ok"
        /\ Len(resps) = Len(delivered)
        /\ \A i \in 1..Len(delivered) : Rekeyed(resps[i], delivered[i])
        /\ (delivered[Len(delivered)].pairs[
                CHOOSE i \in PairsAt(delivered[Len(delivered)], "status") : TRUE][2]
              = List(<<"done">>)
            => StatusOf(resps).class = "Done")

C3_Witness ==
    /\ OnlyLastHasStatus(delivered)
    /\ Len(delivered) = 3
    /\ delivered[1] # delivered[2]
    /\ xpc = "ok"
    /\ resps[3]["status"] = List(<<"done">>)

\* C4: the loop of NreplStream::op takes a Response as the terminal one
\* exactly when its map holds the key status, whatever the value under it
\* and whatever other keys there are.
C4_TerminalIffStatusKey ==
    \A i \in 1..Len(delivered) :
        (delivered[i].dict /\ BadUtf8Key \notin Keys(delivered[i].pairs)) =>
            (HasStatus(delivered[i]) <=> (i = Len(delivered) /\ xpc = "ok"))

C4_Witness ==
    /\ xpc = "ok"
    /\ Len(delivered) = 2
    /\ ~HasStatus(delivered[1])
    /\ delivered[2] = Msg(<<<<"status", Bytes("")>>>>)

\* The status tokens the server sent in the terminal message.
SentTokens == 
    LET m == delivered[Len(delivered)] IN
    m.pairs[CHOOSE i \in PairsAt(m, "status") : TRUE][2].v

StoredFor(file, a) == {e[2] : e \in {x \in file : x[1] = a}}

\* C6: when the sessions file holds an id for the address of the connection
\* and the server lists that id in its answer to ls-sessions,
\* get_existing_session_id returns the stored id, has written neither a clone
\* nor a describe operation, and leaves the sessions file as it was.
C6_ListedSessionIsReused ==
    \A sid \in StoredFor(store0, connAddr) :
        sid \in Range(lsResult) =>
            /\ pc = "done"
            /\ result = Ok(<<sid>>)
            /\ sentOps = <<"ls-sessions">>
            /\ sessionsFile = store0

C6_Witness ==
    /\ pc = "done"
    /\ result.ok
    /\ mbSessionId # None
    /\ mbSessionId[1] \in Range(lsResult)
    /\ Len(lsResult) = 2

\* C7: when the id stored for the address is not in the server's answer to
\* ls-sessions, a successful get_existing_session_id returns the id the
\* server issued in its answer to clone, not the stored one, and the
\* sessions file then maps the address to that id.
C7_StaleSessionIsReplaced ==
    (pc = "done" /\ result.ok) =>
        \A stale \in StoredFor(store0, connAddr) :
            stale \notin Range(lsResult) =>
                /\ result.val[1] # stale
                /\ result.val[1] \in IssuedNow
                /\ StoredFor(sessionsFile, connAddr) = {result.val[1]}

C7_Witness ==
    /\ pc = "done"
    /\ result.ok
    /\ sentOps = <<"ls-sessions", "clone">>
    /\ \E stale \in StoredFor(store0, connAddr) :
           stale \notin Range(lsResult) /\ stale # result.val[1]

\* C8: the sessions file never holds two entries for one address: saving for
\* an address that has an entry replaces it.
C8_OneEntryPerAddress ==
    \A e1, e2 \in sessionsFile : e1[1] = e2[1] => e1 = e2

C8_Witness ==
    /\ pc = "done"
    /\ result.ok
    /\ StoredFor(store0, connAddr) # {}
    /\ StoredFor(sessionsFile, connAddr) # StoredFor(store0, connAddr)
    /\ Cardinality(StoredFor(sessionsFile, connAddr)) = 1

\* C9: an id a successful get_existing_session_id returns is one the server
\* of the connection knows at that moment: it was in the server's answer to
\* ls-sessions or the server issued it in its answer to clone.
C9_ReturnedSessionIsLive ==
    (pc = "done" /\ result.ok) =>
        /\ result.val[1] \in live[connAddr]
        /\ result.val[1] \in Range(lsResult) \cup IssuedNow

C9_Witness ==
    /\ pc = "done"
    /\ result.ok
    /\ mbSessionId = None
    /\ result.val[1] \in live[connAddr]
    /\ live[connAddr] # {result.val[1]}

\* C10: when get_existing_session_id creates a session it writes the clone
\* operation, then the describe operation, and then persists and returns a
\* Session with the new id and the advertised operations.
C10_CloneThenDescribeThenPersist ==
    (pc = "done" /\ result.ok /\ "clone" \in Range(sentOps)) =>
        \E i, j \in 1..Len(sentOps) :
            i < j /\ sentOps[i] = "clone" /\ sentOps[j] = "describe"

(***************************************************************************)
(* Properties of the errors of get_existing_session_id.                    *)
(***************************************************************************)
\* The errors of NreplStream::op and of the send of an operation.
ExchangeErrors ==
    {"IOError", "BencodeFormatError", "BadStatus", "NoSessionsInResponse",
     "NoSessionIdInResponse", "ExpectedString", "ExpectedStrVec"}

\* What get_existing_session_id can return for a failure before the session
\* is created: of load_session_id, of ls-sessions, of clone.
PreCreationErrors == {IOError} \cup {OpError(e) : e \in ExchangeErrors}

\* get_existing_session_id returned an error after create_session succeeded.
PersistFailed == pc = "done" /\ ~result.ok /\ newSessionId # None

\* C11: when the clone succeeded and saving the new session id failed, the
\* error get_existing_session_id returns is none of the errors it returns
\* for a failure before the creation.
C11_PersistFailureIsDistinct ==
    PersistFailed => result.err \notin PreCreationErrors

\* The ls-sessions or clone exchange of get_existing_session_id failed: the
\* peer closed the connection, NreplStream::op returned an error, or the
\* terminal status is not Done.
ResolveExchangeFailed ==
    /\ CurOp \in {"ls-sessions", "clone"}
    /\ \/ eof
       \/ xpc = "err"
       \/ xpc = "ok" /\ StatusOf(resps).class # "Done"

\* C12: when the ls-sessions or clone exchange fails,
\* get_existing_session_id returns that failure as an error, writes no
\* further operation and leaves the sessions file as it was.
C12_ExchangeFailureIsReturned ==
    ResolveExchangeFailed =>
        /\ pc \in {"ls", "clone", "done"}
        /\ sessionsFile = store0
        /\ pc = "done" =>
              /\ ~result.ok
              /\ result.err = OpError(IF xpc = "err" THEN xerr ELSE "BadStatus")

(***************************************************************************)
(* Properties of concurrent resolutions.                                   *)
(***************************************************************************)
\* The processes that created a session.
Creators == {p \in Procs : procs[p].new # None}

\* The two processes resolve the same address.
SameAddr == \A p \in Procs : procs[p].addr = ConcAddr

\* C13: when two processes resolve the same address concurrently, at most
\* one of them creates and persists a session, and both return the
\* identifier the sessions file holds in the end.
C13_OneCreatorUnderLock ==
    (SameAddr /\ \A p \in Procs : procs[p].pc = "done") =>
        /\ Cardinality(Creators) <= 1
        /\ \A p \in Procs :
              /\ procs[p].result.ok
              /\ <<ConcAddr, procs[p].result.val[1]>> \in sessionsFile

(***************************************************************************)
(* Properties of the encoder.                                              *)
(***************************************************************************)
\* C14: the encoding of an Op does not depend on the order in which its
\* arguments (unique names) were inserted.
C14_InsertionOrderIndependent ==
    encOut # None => encOut2 = encOut

C14_Witness ==
    /\ encOut # None
    /\ Len(encOp.args) >= 2
    /\ encArgs2 # encOp.args
    /\ encOut2 = encOut

\* The pairs of the Op being encoded: ("op", name) and its arguments.
EncPairs == {<<OpKey, encOp.name>>} \cup Range(encOp.args)

\* The pairs ps one after the other, each key and each value as its length
\* in decimal, ':' and its bytes.
RECURSIVE LengthPrefixed(_)
LengthPrefixed(ps) ==
    IF ps = <<>> THEN <<>>
    ELSE Decimal(Len(ps[1][1])) \o <<":">> \o ps[1][1]
         \o Decimal(Len(ps[1][2])) \o <<":">> \o ps[1][2]
         \o LengthPrefixed(Tail(ps))

\* C15: the encoding of an Op is 'd', the pairs ("op", name) and one pair
\* per argument as length-prefixed strings with the keys in ascending byte
\* order, 'e'; "clone" without arguments encodes to d2:op5:clonee.
C15_OneMapSortedKeys ==
    encOut # None =>
        /\ \E ps \in [1..Cardinality(EncPairs) -> EncPairs] :
              /\ Range(ps) = EncPairs
              /\ \A i, j \in 1..Len(ps) : i < j => BytesLess(ps[i][1], ps[j][1])
              /\ encOut[1] = <<"d">> \o LengthPrefixed(ps) \o <<"e">>
        /\ encOp = Op(<<"c", "l", "o", "n", "e">>, <<>>) =>
              encOut[1] = <<"d", "2", ":", "o", "p", "5", ":",
                            "c", "l", "o", "n", "e", "e">>

C15_Witness ==
    /\ encOut # None
    /\ \E i, j \in 1..Len(encOp.args) :
          /\ BytesLess(encOp.args[i][1], OpKey)
          /\ BytesLess(OpKey, encOp.args[j][1])
          /\ Len(encOp.args[i][2]) > 9

(***************************************************************************)
(* Properties of the decoder.                                              *)
(***************************************************************************)
\* The bytes read from the stream so far.
Consumed == SubSeq(input, 1, Len(input) - Len(decoder.rdr))

\* What read_object returns on a new Decoder whose stream holds bytes.
Decode(bytes) == read_object(Decoder(bytes, <<>>))

\* C16: read_object returns Ok(None) exactly when the stream ends where a
\* new top-level value would start; when the stream ends after the first
\* byte of a value and before its last, the result is an error.
C16_NoValueOnlyAtValueBoundary ==
    /\ decoded # <<>> => (decoded[1].kind = "none" <=> input = <<>>)
    /\ Len(decoded) = 2 =>
          (decoded[2].kind = "none" <=> Decode(input).d.rdr = <<>>)
    /\ (Len(decoded) = 1 /\ decoded[1].kind = "some") =>
          \A n \in 1..(Len(Consumed) - 1) :
              Decode(SubSeq(input, 1, n)).kind = "err"

C16_Witness ==
    /\ Len(decoded) = 2
    /\ decoded[1].kind = "some"
    /\ Len(input) > 2
    /\ decoded[2].kind = "none"

\* s is an optional sign followed by one decimal digit or more.
IsSignedDecimal(s) ==
    LET ds == IF s # <<>> /\ s[1] \in {"+", "-"} THEN Tail(s) ELSE s IN
    /\ ds # <<>>
    /\ \A i \in 1..Len(ds) :
          ds[i] \in {"0", "1", "2", "3", "4", "5", "6", "7", "8", "9"}

\* The bytes of the input between its first byte and the first 'e' after it.
IntBody ==
    LET n == CHOOSE j \in 2..Len(input) :
                 input[j] = "e" /\ \A h \in 2..(j - 1) : input[h] # "e"
    IN  SubSeq(input, 2, n - 1)

\* C17: 'i' and bytes without 'e' up to the end of the stream give
\* UnexpectedEOF; 'i', bytes that are no signed decimal integer, 'e' give
\* MalformedInput.
C17_IntTruncatedOrMalformed ==
    (decoded # <<>> /\ input # <<>> /\ input[1] = "i") =>
        IF "e" \notin Range(Tail(input))
        THEN decoded[1].kind = "err" /\ decoded[1].err = "UnexpectedEOF"
        ELSE ~IsSignedDecimal(IntBody) =>
                 decoded[1].kind = "err" /\ decoded[1].err = "MalformedInput"

C17_Witness ==
    /\ input = <<"i", "-", "4", "2">>
    /\ decoded # <<>>
    /\ decoded[1].err = "UnexpectedEOF"

\* C18: when the stream ends inside a length-prefixed string (in the length
\* prefix or in the body), read_object fails with UnexpectedEOF.
C18_StringTruncationIsUnexpectedEOF ==
    (decoded # <<>> /\ tree # None /\ tree[1].t = "BBytes" /\ input # Enc(tree[1])) =>
        decoded[1].kind = "err" /\ decoded[1].err = "UnexpectedEOF"

\* Object o holds no Dict.
RECURSIVE MapFree(_)
MapFree(o) == o.t # "Dict" /\ \A i \in 1..Len(o.v) : MapFree(o.v[i])

\* C19: read_object on the encoding of an Object built from integers, byte
\* strings and lists returns that Object; i-42e gives Number(-42).
C19_RoundTrip ==
    (decoded # <<>> /\ tree # None /\ input = Enc(tree[1]) /\ MapFree(tree[1])) =>
        /\ decoded[1].kind = "some"
        /\ decoded[1].obj = tree[1]
        /\ input = <<"i", "-", "4", "2", "e">> => decoded[1].obj = ObjNumber(0 - 42)

C19_Witness ==
    /\ decoded # <<>>
    /\ tree # None
    /\ tree[1].t = "List"
    /\ Len(tree[1].v) = 2
    /\ tree[1].v[1].t = "List"
    /\ tree[1].v[1].v # <<>>
    /\ tree[1].v[2] = ObjNumber(0 - 42)
    /\ input = Enc(tree[1])
    /\ decoded[1].obj = tree[1]

\* The nesting depth of an Object: 0 for an integer or a byte string.
RECURSIVE Depth(_)
Depth(o) ==
    IF o.t \in {"List", "Dict"}
    THEN 1 + (CHOOSE m \in 0..8 :
                  /\ \A i \in 1..Len(o.v) : Depth(o.v[i]) <= m
                  /\ m = 0 \/ \E i \in 1..Len(o.v) : Depth(o.v[i]) = m)
    ELSE 0

\* The lists open after the first n bytes of an input made of 'l' and 'e'.
Open(n) ==
    Cardinality({i \in 1..n : input[i] = "l"})
    - Cardinality({i \in 1..n : input[i] = "e"})

\* C20: le decodes to the empty list; an 'e' closes the innermost open list
\* or map and the outer one goes on with the bytes after it: the encoding
\* of nested lists and maps decodes to the same nesting, all of it read,
\* and on an input of 'l' and 'e' the value ends at the 'e' that closes the
\* first 'l', its depth the largest number of lists open at once.
C20_ContainerFraming ==
    Len(decoded) = 1 =>
        /\ input = <<"l", "e">> => decoded[1].obj = ObjList(<<>>)
        /\ (tree # None /\ input = Enc(tree[1]) /\ tree[1].t \in {"List", "Dict"}) =>
              /\ decoded[1].kind = "some"
              /\ decoded[1].obj = tree[1]
              /\ Depth(decoded[1].obj) = Depth(tree[1])
              /\ decoder = Decoder(<<>>, <<>>)
        /\ (Range(input) \subseteq {"l", "e"} /\ decoded[1].kind = "some") =>
              /\ Open(Len(Consumed)) = 0
              /\ \A n \in 1..(Len(Consumed) - 1) : Open(n) > 0
              /\ \A n \in 1..Len(Consumed) : Open(n) <= Depth(decoded[1].obj)
              /\ \E n \in 1..Len(Consumed) : Open(n) = Depth(decoded[1].obj)

C20_Witness ==
    /\ Len(decoded) = 1
    /\ input = <<"l", "d", "e", "d", "e", "e">>
    /\ decoded[1].obj = ObjList(<<ObjDict(<<>>, <<>>), ObjDict(<<>>, <<>>)>>)
    /\ decoder.rdr = <<>>

\* The input is the encoding of the tree cut before its last byte or earlier.
CutInside ==
    /\ tree # None
    /\ input \in Prefixes(Enc(tree[1]))
    /\ input # Enc(tree[1])

\* C21: when the stream ends inside an open list or map, also after a map
\* key whose value is missing, read_object returns an error, never the
\* elements read so far as a list or a map.
C21_EofInsideContainerIsError ==
    Len(decoded) >= 1 =>
        /\ (CutInside /\ tree[1].t \in {"List", "Dict"}) => decoded[1].kind = "err"
        /\ (tree = None /\ input # <<>> /\ input[1] \in {"l", "d"}
              /\ "e" \notin Range(input)) => decoded[1].kind = "err"
        /\ input = <<"d", "1", ":", "a">> =>
              decoded[1].kind = "err" /\ decoded[1].err = "UnexpectedEOF"

C21_Witness ==
    /\ Len(decoded) >= 1
    /\ CutInside
    /\ tree[1].t = "Dict"
    /\ input = <<"d", "1", ":", "a">>
    /\ decoded[1].kind = "err"

\* Inputs up to and including a 'd' that opens a map.
MapOpeners == {<<"d">>, <<"l", "d">>, <<"l", "l", "d">>, <<"d", "0", ":", "d">>}

\* The name of the token the byte c is.
TokenName(c) ==
    CASE c = "i" -> "Int"
      [] c = "l" -> "List"
      [] c = "d" -> "Dict"
      [] c = "e" -> "End"

\* The input is p followed by one of the bytes cs, and maybe more.
StartsWith(p, cs) ==
    /\ Len(input) > Len(p)
    /\ SubSeq(input, 1, Len(p)) = p
    /\ input[Len(p) + 1] \in cs

\* The input is the encoding of the one-pair map of tree with its closing
\* 'e' replaced by one of the bytes cs.
ClosedBy(cs) ==
    /\ tree # None
    /\ tree[1] \in OnePairDicts
    /\ Len(input) = Len(Enc(tree[1]))
    /\ Front(input) = Front(Enc(tree[1]))
    /\ Last(input) \in cs

\* C22: in a map, a token in key position that starts an integer, a list or
\* a map makes read_object fail with ExpectedDictKey; no map is returned.
C22_NonStringKeyIsExpectedDictKey ==
    Len(decoded) >= 1 =>
        /\ \A p \in MapOpeners :
              StartsWith(p, {"i", "l", "d"}) =>
                  /\ decoded[1].kind = "err"
                  /\ decoded[1].err =
                        "ExpectedDictKey(" \o TokenName(input[Len(p) + 1]) \o ")"
        /\ ClosedBy({"i", "l", "d"}) =>
              /\ decoded[1].kind = "err"
              /\ decoded[1].err = "ExpectedDictKey(" \o TokenName(Last(input)) \o ")"

C22_Witness ==
    /\ Len(decoded) >= 1
    /\ ClosedBy({"l"})
    /\ tree[1].v[1].t = "Dict"
    /\ decoded[1].err = "ExpectedDictKey(List)"

\* C23: an 'e' is accepted only as the end of an enclosing list or map, and
\* read by it: an 'e' where a top-level value would start, or in the place of
\* the value of a pair, is an error, neither a value nor no value.
C23_EndOnlyClosesContainer ==
    /\ (Len(decoded) >= 1 /\ input # <<>> /\ input[1] = "e") =>
          decoded[1].kind = "err" /\ decoded[1].err = "ExpectedObjectStart(End)"
    /\ (Len(decoded) >= 1 /\ tree # None /\ tree[1] \in OnePairDicts
          /\ input = <<"d">> \o EmitStr(tree[1].k[1]) \o <<"e">>) =>
          decoded[1].kind = "err" /\ decoded[1].err = "ExpectedObjectStart(End)"
    /\ (Len(decoded) >= 1 /\ StartsWith(<<"d", "0", ":">>, {"e"})) =>
          decoded[1].kind = "err"
    /\ (Len(decoded) = 1 /\ decoded[1].kind = "some"
          /\ decoded[1].obj.t \in {"List", "Dict"}) =>
          Last(Consumed) = "e" /\ decoder.tokens = <<>>
    /\ (Len(decoded) = 2 /\ Decode(input).d.rdr # <<>>
          /\ Decode(input).d.rdr[1] = "e") =>
          decoded[2].kind = "err" /\ decoded[2].err = "ExpectedObjectStart(End)"

C23_Witness ==
    /\ Len(decoded) >= 1
    /\ tree # None
    /\ input = <<"d", "1", ":", "a", "e">>
    /\ decoded[1].err = "ExpectedObjectStart(End)"

\* The bytes a token starts with.
TokenStarts == {"i", "l", "d", "e"} \cup Range(DecimalDigits)

\* Inputs after which the next token starts, at depth 0, 1 and 2.
TokenBoundaries ==
    {<<>>, <<"l">>, <<"d">>, <<"l", "l">>, <<"l", "d">>, <<"l", "0", ":">>,
     <<"d", "0", ":">>, <<"l", "l", "e">>, <<"l", "d", "e">>}

\* C24: a token whose first byte is none of 'i', 'l', 'd', 'e' and a digit
\* makes read_object fail with UnexpectedToken carrying that byte, at top
\* level and inside lists and maps.
C24_UnexpectedTokenCarriesByte ==
    Len(decoded) >= 1 =>
        /\ \A p \in TokenBoundaries :
              StartsWith(p, (RawAlphabet \cup {ByteFF}) \ TokenStarts) =>
                  /\ decoded[1].kind = "err"
                  /\ decoded[1].err = "UnexpectedToken(" \o input[Len(p) + 1] \o ")"
        /\ ClosedBy({"a"}) =>
              decoded[1].kind = "err" /\ decoded[1].err = "UnexpectedToken(a)"

C24_Witness ==
    /\ Len(decoded) >= 1
    /\ ClosedBy({"a"})
    /\ tree[1].v[1].t = "List"
    /\ decoded[1].err = "UnexpectedToken(a)"

\* C26: read_object keeps the wire order: the elements of a list and the
\* pairs of a map come in the order of their encodings, and a key that
\* occurs twice gives two pairs.
C26_WireOrderIsKept ==
    (Len(decoded) >= 1 /\ tree # None /\ input = Enc(tree[1])
       /\ tree[1].t \in {"List", "Dict"}) =>
        /\ decoded[1].kind = "some"
        /\ decoded[1].obj.t = tree[1].t
        /\ Len(decoded[1].obj.v) = Len(tree[1].v)
        /\ \A i \in 1..Len(tree[1].v) : decoded[1].obj.v[i] = tree[1].v[i]
        /\ tree[1].t = "Dict" =>
              /\ Len(decoded[1].obj.k) = Len(tree[1].k)
              /\ \A i \in 1..Len(tree[1].k) : decoded[1].obj.k[i] = tree[1].k[i]

C26_Witness ==
    /\ Len(decoded) >= 1
    /\ input = <<"d", "1", ":", "a", "i", "0", "e", "1", ":", "a", "0", ":", "e">>
    /\ decoded[1].obj =
          ObjDict(<<<<"a">>, <<"a">>>>, <<ObjNumber(0), ObjBBytes(<<>>)>>)

\* The Decoder after n calls of read_object when one read delivers all the
\* bytes of the input, and what the n-th call returns.
RECURSIVE WholeDecoder(_)
WholeDecoder(n) ==
    IF n = 0 THEN Decoder(Unchunked(input), <<>>)
    ELSE read_object(WholeDecoder(n - 1)).d

WholeResult(n) == read_object(WholeDecoder(n - 1))

\* What a call of read_object returned and what it left.
Outcome(r) == <<r.kind, r.obj, r.err, r.d.rdr, r.d.tokens>>

\* C25: however the reads split the bytes of the stream, one byte per read
\* included, each call of read_object (here the last one made) returns what
\* it returns when one read delivers them all: the same value, the same
\* Ok(None) or the same error, with the same bytes left in the stream.
C25_StreamingEquivalence ==
    \A n \in {Len(decoded)} \ {0} :
        <<decoded[n].kind, decoded[n].obj, decoded[n].err,
          Unchunked(decoder.rdr), decoder.tokens>> = Outcome(WholeResult(n))

C25_Witness ==
    /\ Len(decoded) = 1
    /\ input = Chunked(<<"l", "2", ":", "i", "e", "i", "-", "4", "2", "e", "e">>,
                       1..10)
    /\ decoded[1].obj = ObjList(<<ObjBBytes(<<"i", "e">>), ObjNumber(0 - 42)>>)

(***************************************************************************)
(* Further properties of the exchange loop and of the commands.            *)
(***************************************************************************)
\* The message holds a key twice.
HasDuplicateKey(m) ==
    \E i, j \in 1..Len(m.pairs) : i # j /\ m.pairs[i][1] = m.pairs[j][1]

\* The messages end with the only one that holds a status.
EndsAtStatus(ms) ==
    /\ ms # <<>>
    /\ \A i \in 1..Len(ms) : HasStatus(ms[i]) <=> i = Len(ms)

\* C27: a message that holds a key twice is rejected when it is re-keyed
\* into a Response: read_resp fails with DuplicatedKeyError naming the key,
\* and no value silently replaces another.
C27_DuplicateKeyIsRejected ==
    \A i \in 1..Len(delivered) :
        HasDuplicateKey(delivered[i]) =>
            /\ i = Len(delivered)
            /\ xpc = "err"
            /\ xerr = "DuplicatedKeyError(x)"

\* C28: Info::send on a Session whose operations do not hold "info" returns
\* Err(InfoOpUnavailable); nothing is written to the connection (the last
\* operation written is still the eval of GetNsName) and nothing is read
\* from it (the last message read is still the terminal one of that eval).
C28_InfoUnavailableWritesNothing ==
    /\ (session # None /\ "info" \notin session[1]) =>
          /\ pc = "died"
          /\ died = "InfoOpUnavailable"
          /\ "info" \notin Range(sentOps)
          /\ CurOp = "eval"
          /\ xpc = "ok"
          /\ EndsAtStatus(delivered)
    /\ (session # None /\ "info" \in session[1]) =>
          /\ "info" \in Range(sentOps) \/ (xpc = "err" /\ xerr = "IOError")
          /\ died # "InfoOpUnavailable"

C28_Witness ==
    /\ session = Some({"eval"})
    /\ pc = "died"
    /\ died = "InfoOpUnavailable"
    /\ sentOps = <<"clone", "eval">>

\* C29: a connect timeout or a read timeout makes the operation fail with
\* an error value that names the timeout; the process does not panic.
C29_TimeoutIsReported ==
    timedOut # "" =>
        /\ pc # "panicked"
        /\ \/ died = "IOError(TimedOut)"
           \/ xpc = "err" /\ xerr = "IOError(TimedOut)"

\* C30: an operation is written to the connection only when no operation
\* was written before it in this run, or the exchange of the one before has
\* ended with its terminal Response read: the last message read holds a
\* status and no message before it does.
C30_ExchangesDoNotOverlap ==
    [][(Len(sentOps') > Len(sentOps) /\ sentOps # <<>>) =>
          /\ xpc = "ok"
          /\ EndsAtStatus(delivered)
          /\ Len(resps) = Len(delivered)]_vars

C30_Witness ==
    /\ sentOps = <<"ls-sessions", "clone", "eval", "info">>
    /\ xpc = "ok"
    /\ pc = "docdone"

\* C31: NreplStream::op hands the whole encoded operation to the transport
\* before its first read, and a write the transport took only a prefix or
\* nothing of makes op return Err(IOError): the read loop never waits for a
\* Response to an operation that was not written whole.
C31_WholeOperationBeforeFirstRead ==
    /\ xpc = "reading" => written = "all"
    /\ written \in {"prefix", "none"} => (xpc = "err" /\ xerr = "IOError")

\* C32: NreplStream::op reads nothing after the terminal Response.  A
\* message leaves the connection only by a read of the loop, which takes
\* exactly the first unread message as the next Response, and the loop does
\* not read once it has the terminal Response: what the server sent after
\* the terminal message is unread when op returns, until the process ends
\* and closes the connection.
C32_NothingReadAfterTerminal ==
    [][unread' # unread =>
          \/ \E m \in AheadMsgs : unread' = Append(unread, m)
          \/ /\ xpc = "reading"
             /\ unread # <<>>
             /\ unread' = Tail(unread)
             /\ delivered' = Append(delivered, Head(unread))
          \/ pc' = "off"]_vars

C32_Witness ==
    /\ pc = "done"
    /\ xpc = "ok"
    /\ Len(delivered) = 2
    /\ unread = <<Msg(<<<<"x", Bytes("v")>>>>), Msg(<<<<"status", List(<<"done">>)>>>>)>>

\* The input holds the encodings of the elements of the List of tree, one
\* after the other.
ValuesInARow == tree # None /\ tree[1].t = "List" /\ input = EncAll(tree[1].v)

\* r is what decoding, alone, the bytes a call consumed returns: the call
\* took exactly the bytes of v when it is v with nothing left.
ExactlyTheBytesOf(v, r) == r.kind = "some" /\ r.obj = v /\ r.d.rdr = <<>>

\* C33: between the calls of read_object the token buffer holds at most one
\* token, and none after a call that returned Ok(Some(v)); the first call
\* has then consumed exactly the bytes that encode v; and on a stream that
\* holds the encodings of v1, v2 the calls return v1, v2 and then Ok(None),
\* each having consumed the encodings up to its value.
C33_LookaheadDiscipline ==
    /\ Len(decoder.tokens) <= 1
    /\ \A n \in {Len(decoded)} \ {0} :
          decoded[n].kind = "some" => decoder.tokens = <<>>
    /\ (Len(decoded) = 1 /\ decoded[1].kind = "some") =>
          ExactlyTheBytesOf(decoded[1].obj, Decode(Consumed))
    /\ ValuesInARow =>
          \A n \in {Len(decoded)} \ {0} :
             /\ n <= Len(tree[1].v) =>
                   /\ decoded[n].kind = "some"
                   /\ decoded[n].obj = tree[1].v[n]
                   /\ Consumed = EncAll(SubSeq(tree[1].v, 1, n))
             /\ n = Len(tree[1].v) + 1 =>
                   /\ decoded[n].kind = "none"
                   /\ Consumed = input

C33_Witness ==
    /\ ValuesInARow
    /\ input = <<"l", "i", "0", "e", "e", "d", "1", ":", "a", "0", ":", "e">>
    /\ Len(decoded) = 3
    /\ decoded[1].obj = ObjList(<<ObjNumber(0)>>)
    /\ decoded[2].obj = ObjDict(<<<<"a">>>>, <<ObjBBytes(<<>>)>>)
    /\ decoded[3].kind = "none"
    /\ decoder.tokens = <<>>

\* Both processes have returned, each after save_session_id.
BothSaved == \A p \in Procs : procs[p].pc = "done" /\ procs[p].new # None

\* The addresses the two processes resolve.
ResolvedAddrs == {procs[p].addr : p \in Procs}

\* C34: when two processes run save_session_id concurrently for two
\* different addresses, then once both have finished the sessions file
\* holds the new entry of each and every entry of another address that
\* either of them found in the file.
C34_NoLostUpdateAcrossAddresses ==
    (~SameAddr /\ BothSaved) =>
        \A p \in Procs :
            /\ <<procs[p].addr, procs[p].new[1]>> \in sessionsFile
            /\ \A e \in procs[p].parsed :
                  e[1] \notin ResolvedAddrs => e \in sessionsFile

C34_Witness ==
    /\ ~SameAddr
    /\ BothSaved
    /\ sessionsFile = {<<"a1", Id(1)>>, <<"a2", Id(2)>>, <<OtherAddr, Id(0)>>}
    /\ procs["p2"].parsed = {<<ConcAddr, Id(1)>>, <<OtherAddr, Id(0)>>}

\* Process q is inside save_session_id, between its parse of the sessions
\* file and the end of its write.
Saving(q) == procs[q].pc \in {"locked", "truncated"}

\* C35: a load_session_id of process p that runs while process q is inside
\* save_session_id returns, for an address that has an entry both in the
\* file q parsed and in the file q writes, the session id of one of the
\* two entries; never None.
C35_LoadSeesBeforeOrAfter ==
    [][\A p \in Procs, q \in Procs :
          (/\ p # q
           /\ procs[p].pc = "start"
           /\ procs'[p].pc # "start"
           /\ Saving(q)
           /\ load_session_id(procs[q].parsed, procs[p].addr) # None
           /\ load_session_id(procs[q].sessions, procs[p].addr) # None)
          => procs'[p].mb \in
                {load_session_id(procs[q].parsed, procs[p].addr),
                 load_session_id(procs[q].sessions, procs[p].addr)}]_vars

\* C36: save_session of a Session followed by load_session of its address
\* returns a Session with the same address, the same identifier and the
\* same list of operation names, the empty list included.
C36_StoreRoundTrip ==
    (stPc = "loaded" /\ stLoaded # None /\ stLoaded[1].addr = stSession.addr) =>
        stLoaded = Some(stSession)

====
